---- MODULE Spec2Model ----
(***************************************************************************)
(* The canvas editing engine of memelytics, src/components/canvas-editor.tsx *)
(* (the fixed-frame editor, lines 1705-3122), as a state machine.          *)
(*                                                                         *)
(* The editor is a React function component.  Its state is held in        *)
(* useState cells (image, state, the selections, the active tool), in     *)
(* useRef cells (the history stack and cursor, the gesture sessions) and  *)
(* in values captured by the handlers of the last committed render        *)
(* (canUndo, canRedo).  One action of the model is one handler run to     *)
(* completion followed by the re-render React performs when a useState    *)
(* cell was given a new value.                                            *)
(*                                                                         *)
(* Two smaller machines stand beside it: the padding policy of the editor *)
(* of lines 1-1703 (updatePadding, addSpace) and the POST handler of      *)
(* app/api/users/route.ts with its find-then-insert on the users          *)
(* collection.                                                             *)
(***************************************************************************)
EXTENDS Integers, Sequences, FiniteSets, TLC

\* ------------------------------------------------------------------ bounds
MaxHist == 3          \* longest history stack explored
MaxTexts == 1         \* most text layers in one snapshot
MaxImages == 3        \* most overlay images in one snapshot
MaxStrokes == 1       \* most strokes in one snapshot
MaxPoints == 2        \* most points in one stroke
MaxPending == 2       \* most template decodes in flight
MaxRequests == 2      \* most POST /api/users requests in flight
MaxUsers == 3         \* most documents in the users collection

\* ------------------------------------------------------- program constants
FIXED_CANVAS_WIDTH == 800
FIXED_CANVAS_HEIGHT == 600
DefaultTextSize == 20
BrushSize == 6
NoId == 0             \* null in a string | null cell

\* ---------------------------------------------------------------- inputs
\* The templates a user may load, with the natural size of their decoded image.
Templates == {"T1", "T2"}
NoImage == "none"
TemplateW(t) == IF t = "T1" THEN 400 ELSE 200
TemplateH(t) == IF t = "T1" THEN 300 ELSE 200

Tools == {"none", "rotate", "text", "draw", "download", "image"}

VARIABLES
    image,            \* useState image: the installed base template, or NoImage
    state,            \* useState state: the live EditorState
    editingTextId,    \* useState editingTextId
    selectedTextId,   \* useState selectedTextId
    selectedImageId,  \* useState selectedImageId
    activeTool,       \* useState activeTool
    historyRef,       \* useRef historyRef.current
    historyIndexRef,  \* useRef historyIndexRef.current
    stateRef,         \* useRef stateRef.current
    drawingRef,       \* useRef drawingRef.current: id of the stroke being drawn
    transformRef,     \* useRef transformRef.current: the transform session
    imageMapRef,      \* useRef imageMapRef.current: id -> natural size
    canUndo,          \* canUndo as captured by the handlers of the last render
    canRedo,          \* canRedo as captured by the handlers of the last render
    crashed,          \* a render threw: React has unmounted the editor
    pendingLoads,     \* template decodes in flight: template -> count
    pendingAdds,      \* add-images requests in flight
    lastRequested,    \* the template of the most recent load request
    loadCalls,        \* onTemplateLoad invocations made by the last handler
    lastOp,           \* the handler that ran last
    paddingEditor,    \* the padding editor (lines 1-1703): imageNatural,
                      \* state, historyRef and historyIndexRef of its own
    users,            \* the documents of the users collection, in insertion
                      \* order
    requests          \* POST /api/users: each request's position, body,
                      \* lowerAddress and response

vars == <<image, state, editingTextId, selectedTextId, selectedImageId,
          activeTool, historyRef, historyIndexRef, stateRef, drawingRef,
          transformRef, imageMapRef, canUndo, canRedo, crashed, pendingLoads,
          pendingAdds, lastRequested, loadCalls, lastOp, paddingEditor,
          users, requests>>

\* ------------------------------------------------------------ data model
\* defaultState; oid is the identity of the JavaScript object (Object.is).
defaultState ==
    [oid |-> 0, rotationDeg |-> 0, bgColor |-> "#ffffff",
     texts |-> <<>>, strokes |-> <<>>, images |-> <<>>]

\* What reading historyRef.current[i] out of range, then setState, leaves.
Undefined ==
    [oid |-> -1, rotationDeg |-> 0, bgColor |-> "undefined",
     texts |-> <<>>, strokes |-> <<>>, images |-> <<>>]

\* The snapshot without its object identity.
Val(s) == [f \in (DOMAIN s) \ {"oid"} |-> s[f]]

NoTransform ==
    [mode |-> "null", id |-> NoId, target |-> "undefined",
     offsetX |-> 0, offsetY |-> 0, centerX |-> 0, centerY |-> 0,
     startAngleDeg |-> 0, initialRotationDeg |-> 0,
     initialW |-> 0, initialH |-> 0, initialSize |-> 0]

contentW == IF image = NoImage THEN FIXED_CANVAS_WIDTH ELSE TemplateW(image)
contentH == IF image = NoImage THEN FIXED_CANVAS_HEIGHT ELSE TemplateH(image)

\* historyRef.current[i], 0-based as in the code.
HistAt(h, i) == IF i + 1 \in DOMAIN h THEN h[i + 1] ELSE Undefined

IdsOf(s) == {s[i].id : i \in DOMAIN s}
\* The ids of a sequence of layers, in order.
IdSeq(s) == [i \in DOMAIN s |-> s[i].id]
Min2(a, b) == IF a < b THEN a ELSE b
Max2(a, b) == IF a > b THEN a ELSE b

\* A fresh object identity.  Object.is is only ever asked of the live state
\* and a history entry next to the cursor (undo, redo, a push of
\* stateRef.current) or defaultState (reset), so a new object takes the
\* least identity that tells it from those.
UsedOids ==
    {state.oid, stateRef.oid, HistAt(historyRef, historyIndexRef - 1).oid,
     HistAt(historyRef, historyIndexRef).oid,
     HistAt(historyRef, historyIndexRef + 1).oid}
FreshOid == CHOOSE n \in 1..6 :
    /\ n \notin UsedOids
    /\ \A m \in 1..(n - 1) : m \in UsedOids

\* A new object that keeps the rotation and the colour and drops the layers.
FreshWithoutLayers(s) ==
    [s EXCEPT !.oid = FreshOid, !.texts = <<>>, !.strokes = <<>>,
              !.images = <<>>]

\* { ...s } : a new object with the fields of s.
Fresh(s) == [s EXCEPT !.oid = FreshOid]

\* --------------------------------------------------------------- render
\* The render of the component throws when state is undefined
\* (state.texts, line 2272) or when the inline editor looks up a text that
\* is not there (state.texts.find(...)!.text, lines 3074-3079).
RenderThrows(st, editing) ==
    \/ st = Undefined
    \/ editing # NoId /\ editing \notin IdsOf(st.texts)

\* React re-renders when a useState cell received a value that is not
\* Object.is-equal to the one it held (force: the value is a new object the
\* model cannot tell from the old one).  The render recomputes canUndo and
\* canRedo from the refs and its effect copies state to stateRef.
Rerender(force) ==
    /\ UNCHANGED paddingEditor     \* another component, with cells of its own
    /\ UNCHANGED <<users, requests>>      \* the editor makes no request
    /\ LET changed ==
               \/ force
               \/ image' # image
               \/ state' # state
               \/ editingTextId' # editingTextId
               \/ selectedTextId' # selectedTextId
               \/ selectedImageId' # selectedImageId
               \/ activeTool' # activeTool
       IN  IF ~changed
           THEN UNCHANGED <<canUndo, canRedo, stateRef, crashed>>
           ELSE IF RenderThrows(state', editingTextId')
           THEN crashed' = TRUE /\ UNCHANGED <<canUndo, canRedo, stateRef>>
           ELSE /\ crashed' = FALSE
                /\ canUndo' = (historyIndexRef' > 0)
                /\ canRedo' = (historyIndexRef' < Len(historyRef') - 1)
                /\ stateRef' = state'

\* ------------------------------------------------------- history manager
\* A push that keeps the entries beyond the cursor.
PushHistoryNoTruncate(next) ==
    /\ historyRef' = Append(historyRef, next)
    /\ historyIndexRef' = Len(historyRef') - 1
    /\ state' = next

\* A push that writes over the entry at the cursor.
PushHistoryInPlace(next) ==
    /\ historyRef' = [historyRef EXCEPT ![historyIndexRef + 1] = next]
    /\ historyIndexRef' = historyIndexRef
    /\ state' = next

\* pushHistory(next)
PushHistory(next) ==
    /\ historyRef' = Append(SubSeq(historyRef, 1, historyIndexRef + 1), next)
    /\ historyIndexRef' = Len(historyRef') - 1
    /\ state' = next

\* A request slot with no request in it; its user is no document.
NoRequest ==
    [pc |-> "idle", walletAddress |-> "", lowerAddress |-> "",
     status |-> 0, user |-> [_id |-> 0, walletAddress |-> ""]]

\* imageNatural of the padding editor before a base image is decoded.
NoNatural == [w |-> 0, h |-> 0]

\* defaultState of the padding editor (lines 80-87), and the base an image
\* load installs (lines 224-231).
paddingDefaultState ==
    [rotationDeg |-> 0,
     padding |-> [top |-> 20, right |-> 20, bottom |-> 20, left |-> 20],
     bgColor |-> "#ffffff", texts |-> <<>>, strokes |-> <<>>, images |-> <<>>]

\* The model explores stacks of at most MaxHist entries.
RoomToPush == historyIndexRef + 1 < MaxHist

Init ==
    /\ image = NoImage
    /\ state = defaultState
    /\ editingTextId = NoId
    /\ selectedTextId = NoId
    /\ selectedImageId = NoId
    /\ activeTool = "none"
    /\ historyRef = <<defaultState>>
    /\ historyIndexRef = 0
    /\ stateRef = defaultState
    /\ drawingRef = NoId
    /\ transformRef = NoTransform
    /\ imageMapRef = <<>>
    /\ canUndo = FALSE
    /\ canRedo = FALSE
    /\ crashed = FALSE
    /\ pendingLoads = [t \in Templates |-> 0]
    /\ pendingAdds = <<>>
    /\ lastRequested = NoImage
    /\ loadCalls = 0
    /\ lastOp = "init"
    /\ paddingEditor =
           [imageNatural |-> NoNatural, state |-> paddingDefaultState,
            historyRef |-> <<paddingDefaultState>>, historyIndexRef |-> 0]
    /\ users = <<>>
    /\ requests = [r \in 1..MaxRequests |-> NoRequest]

\* uid() draws eight random characters: an id no layer of the same kind still
\* referenced carries.  Ids are only ever compared within one kind of layer
\* (texts with texts, strokes with strokes, images with images), so the model
\* numbers each kind on its own and takes the least number that is free.
Snapshots ==
    {state, stateRef} \cup {historyRef[i] : i \in DOMAIN historyRef}
    \cup {pendingAdds[i].state : i \in DOMAIN pendingAdds}
UsedTextIds ==
    UNION {IdsOf(s.texts) : s \in Snapshots}
    \cup {editingTextId, selectedTextId}
    \cup (IF transformRef.target = "image" THEN {} ELSE {transformRef.id})
UsedStrokeIds ==
    UNION {IdsOf(s.strokes) : s \in Snapshots} \cup {drawingRef}
UsedImageIds ==
    UNION {IdsOf(s.images) : s \in Snapshots}
    \cup {selectedImageId}
    \cup (IF transformRef.target = "image" THEN {transformRef.id} ELSE {})
\* The n-th id free of used (n = 1 is the least).
FreeId(used, n) ==
    LET free == (1..(Cardinality(used) + n)) \ used
    IN  CHOOSE i \in free : Cardinality({j \in free : j <= i}) = n
uid(used) == FreeId(used, 1)

\* Variables no handler of a given group writes.
asyncVars == <<pendingLoads, pendingAdds, lastRequested>>
sessionVars == <<drawingRef, transformRef>>
selectionVars == <<editingTextId, selectedTextId, selectedImageId>>
historyVars == <<historyRef, historyIndexRef>>

\* A spread that drops the partial: { ...t }.
MergeNothing(t, partial) == t

\* { ...t, ...partial }
Merge(t, partial) ==
    [f \in DOMAIN t |-> IF f \in DOMAIN partial THEN partial[f] ELSE t[f]]

\* ------------------------------------------------------------- templates
PendingCount == pendingLoads["T1"] + pendingLoads["T2"]

\* A reset of the history and the layers that leaves the selection.
ResetKeepsSelection ==
    /\ historyRef' = <<defaultState>>
    /\ historyIndexRef' = 0
    /\ state' = defaultState
    /\ UNCHANGED <<selectedTextId, selectedImageId>>
    /\ editingTextId' = NoId

\* reset()
Reset ==
    /\ historyRef' = <<defaultState>>
    /\ historyIndexRef' = 0
    /\ state' = defaultState
    /\ selectedTextId' = NoId
    /\ selectedImageId' = NoId
    /\ editingTextId' = NoId

\* loadTemplate(url) / onFileChange: the decode is started and the handler
\* returns; img.onload or img.onerror runs later.
LoadTemplate(t) ==
    /\ ~crashed
    /\ PendingCount < MaxPending
    /\ lastOp' = "loadTemplate"
    /\ pendingLoads' = [pendingLoads EXCEPT ![t] = @ + 1]
    /\ lastRequested' = t
    /\ loadCalls' = 0
    /\ UNCHANGED <<image, state, activeTool, imageMapRef, pendingAdds>>
    /\ UNCHANGED <<selectionVars, historyVars, sessionVars>>
    /\ Rerender(FALSE)

\* img.onload of a template decode
TemplateDecoded(t) ==
    /\ ~crashed
    /\ pendingLoads[t] > 0
    /\ lastOp' = "templateDecoded"
    /\ pendingLoads' = [pendingLoads EXCEPT ![t] = @ - 1]
    /\ image' = t
    /\ Reset
    /\ loadCalls' = 1
    /\ UNCHANGED <<activeTool, imageMapRef, pendingAdds, lastRequested>>
    /\ UNCHANGED sessionVars
    /\ Rerender(TRUE)

\* A failed decode that resets the editor all the same.
TemplateFailedResets(t) ==
    /\ ~crashed
    /\ pendingLoads[t] > 0
    /\ lastOp' = "templateFailed"
    /\ pendingLoads' = [pendingLoads EXCEPT ![t] = @ - 1]
    /\ Reset
    /\ loadCalls' = 0
    /\ UNCHANGED <<image, activeTool, imageMapRef, pendingAdds, lastRequested>>
    /\ UNCHANGED sessionVars
    /\ Rerender(FALSE)

\* img.onerror of a template decode
TemplateFailed(t) ==
    /\ ~crashed
    /\ pendingLoads[t] > 0
    /\ lastOp' = "templateFailed"
    /\ pendingLoads' = [pendingLoads EXCEPT ![t] = @ - 1]
    /\ loadCalls' = 0
    /\ UNCHANGED <<image, state, activeTool, imageMapRef, pendingAdds,
                   lastRequested>>
    /\ UNCHANGED <<selectionVars, historyVars, sessionVars>>
    /\ Rerender(FALSE)

\* The Reset button (internal controls), enabled once a template is loaded.
ResetClick ==
    /\ ~crashed
    /\ image # NoImage
    /\ lastOp' = "reset"
    /\ Reset
    /\ loadCalls' = 0
    /\ UNCHANGED <<image, activeTool, imageMapRef>>
    /\ UNCHANGED <<asyncVars, sessionVars>>
    /\ Rerender(FALSE)

\* setTool(tool) and the tool buttons
SetTool(tool) ==
    /\ ~crashed
    /\ lastOp' = "setTool"
    /\ activeTool' = tool
    /\ loadCalls' = 0
    /\ UNCHANGED <<image, state, imageMapRef>>
    /\ UNCHANGED <<selectionVars, historyVars, asyncVars, sessionVars>>
    /\ Rerender(FALSE)

\* A render caused by the parent component re-rendering (the editor is not
\* memoised): the handlers are re-created from the current refs.
ParentRender ==
    /\ ~crashed
    /\ lastOp' = "parentRender"
    /\ loadCalls' = 0
    /\ UNCHANGED <<image, state, activeTool, imageMapRef>>
    /\ UNCHANGED <<selectionVars, historyVars, asyncVars, sessionVars>>
    /\ Rerender(TRUE)

\* ------------------------------------------------------------ text layers
\* An addText that puts the text at the frame's origin and opens no editor.
AddTextAtOrigin ==
    /\ ~crashed
    /\ RoomToPush
    /\ Len(state.texts) < MaxTexts
    /\ lastOp' = "addText"
    /\ LET id == uid(UsedTextIds)
           newText == [id |-> id, text |-> "", x |-> 0, y |-> 0,
                       size |-> DefaultTextSize, color |-> "#000",
                       font |-> "Fredoka One", rotationDeg |-> 0]
           next == [Fresh(state) EXCEPT !.texts = Append(state.texts, newText)]
       IN  /\ PushHistory(next)
           /\ selectedTextId' = id
    /\ loadCalls' = 0
    /\ UNCHANGED <<image, editingTextId, selectedImageId, activeTool,
                   imageMapRef>>
    /\ UNCHANGED <<asyncVars, sessionVars>>
    /\ Rerender(FALSE)

\* addText()
AddText ==
    /\ ~crashed
    /\ RoomToPush
    /\ Len(state.texts) < MaxTexts
    /\ lastOp' = "addText"
    /\ LET id == uid(UsedTextIds)
           newText == [id |-> id, text |-> "", x |-> contentW \div 2,
                       y |-> contentH \div 2, size |-> DefaultTextSize,
                       color |-> "#000", font |-> "Fredoka One",
                       rotationDeg |-> 0]
           next == [Fresh(state) EXCEPT !.texts = Append(state.texts, newText)]
       IN  /\ PushHistory(next)
           /\ selectedTextId' = id
           /\ editingTextId' = id
    /\ loadCalls' = 0
    /\ UNCHANGED <<image, selectedImageId, activeTool, imageMapRef>>
    /\ UNCHANGED <<asyncVars, sessionVars>>
    /\ Rerender(FALSE)

\* updateText(id, partial)
UpdateText(id, partial) ==
    /\ ~crashed
    /\ RoomToPush
    /\ lastOp' = "updateText"
    /\ LET nextTexts == [i \in DOMAIN state.texts |->
                            IF state.texts[i].id = id
                            THEN Merge(state.texts[i], partial)
                            ELSE state.texts[i]]
       IN  PushHistory([Fresh(state) EXCEPT !.texts = nextTexts])
    /\ selectedTextId' = id
    /\ loadCalls' = 0
    /\ UNCHANGED <<image, editingTextId, selectedImageId, activeTool,
                   imageMapRef>>
    /\ UNCHANGED <<asyncVars, sessionVars>>
    /\ Rerender(FALSE)

\* removeText(id)
RemoveText(id) ==
    /\ ~crashed
    /\ RoomToPush
    /\ lastOp' = "removeText"
    /\ LET Keep(t) == t.id # id
       IN  PushHistory([Fresh(state) EXCEPT !.texts = SelectSeq(state.texts, Keep)])
    /\ IF selectedTextId = id
       THEN selectedTextId' = NoId /\ editingTextId' = NoId
       ELSE UNCHANGED <<selectedTextId, editingTextId>>
    /\ loadCalls' = 0
    /\ UNCHANGED <<image, selectedImageId, activeTool, imageMapRef>>
    /\ UNCHANGED <<asyncVars, sessionVars>>
    /\ Rerender(FALSE)

\* clearStrokes()
ClearStrokes ==
    /\ ~crashed
    /\ RoomToPush
    /\ lastOp' = "clearStrokes"
    /\ PushHistory([Fresh(state) EXCEPT !.strokes = <<>>])
    /\ loadCalls' = 0
    /\ UNCHANGED <<image, activeTool, imageMapRef>>
    /\ UNCHANGED <<selectionVars, asyncVars, sessionVars>>
    /\ Rerender(FALSE)

\* JavaScript a % b for b > 0: the result takes the sign of a.
JsRem(a, b) == IF a >= 0 THEN a % b ELSE -((-a) % b)

\* rotateBy(delta)
RotateBy(delta) ==
    /\ ~crashed
    /\ RoomToPush
    /\ lastOp' = "rotateBy"
    /\ PushHistory([Fresh(state) EXCEPT
                        !.rotationDeg = JsRem(state.rotationDeg + delta, 360)])
    /\ loadCalls' = 0
    /\ UNCHANGED <<image, activeTool, imageMapRef>>
    /\ UNCHANGED <<selectionVars, asyncVars, sessionVars>>
    /\ Rerender(FALSE)

\* -------------------------------------------------------------- geometry
\* Math.round(a / b) for b > 0: the nearest integer, halves towards +infinity.
RoundDiv(a, b) == (2 * a + b) \div (2 * b)

\* cos and sin of an angle in degrees.  The model rotates by multiples of 90
\* only, where both are exact.
Cos90(deg) ==
    CASE deg % 360 = 0 -> 1
      [] deg % 360 = 90 -> 0
      [] deg % 360 = 180 -> -1
      [] deg % 360 = 270 -> 0
Sin90(deg) ==
    CASE deg % 360 = 0 -> 0
      [] deg % 360 = 90 -> 1
      [] deg % 360 = 180 -> 0
      [] deg % 360 = 270 -> -1

\* Math.atan2(dy, dx) in degrees, for the directions along an axis.
Atan2Deg(dy, dx) ==
    CASE dy = 0 /\ dx >= 0 -> 0
      [] dy = 0 /\ dx < 0 -> 180
      [] dx = 0 /\ dy > 0 -> 90
      [] dx = 0 /\ dy < 0 -> -90

Pt(x, y) == [x |-> x, y |-> y]

\* The point c + R(deg)(v): v turned by deg about c.
Turn(c, v, deg) ==
    Pt(c.x + v.x * Cos90(deg) - v.y * Sin90(deg),
       c.y + v.x * Sin90(deg) + v.y * Cos90(deg))

\* The render transform of drawBaseCanvas (translate to the frame centre,
\* rotate by state.rotationDeg): where a content point shows on the canvas.
ToClient(pt) ==
    Turn(Pt(contentW \div 2, contentH \div 2),
         Pt(pt.x - contentW \div 2, pt.y - contentH \div 2), state.rotationDeg)

\* A pointer mapping that turns by the angle of the render transform
\* instead of its opposite.
getContentPointForwardAngle(client) ==
    Turn(Pt(contentW \div 2, contentH \div 2),
         Pt(client.x - contentW \div 2, client.y - contentH \div 2),
         state.rotationDeg)

\* getContentPointFromClient(clientX, clientY), the canvas shown unscaled at
\* the origin (rect = 0, 0, contentSize.w, contentSize.h).
getContentPointFromClient(client) ==
    LET scaleX == 1
        scaleY == 1
        px == client.x * scaleX
        py == client.y * scaleY
        centerX == contentW \div 2
        centerY == contentH \div 2
        dx == px - centerX
        dy == py - centerY
        cos == Cos90(-state.rotationDeg)
        sin == Sin90(-state.rotationDeg)
        rx == dx * cos - dy * sin
        ry == dx * sin + dy * cos
    IN  Pt(rx + contentW \div 2, ry + contentH \div 2)

\* measureText(t): the width is the browser's; the model takes every glyph
\* to be as wide as the font size.  h is the font size.
measureText(t) ==
    [w |-> (IF t.text = "" THEN 1 ELSE Len(t.text)) * t.size, h |-> t.size]

\* hitTestTextLocal(pt, t).  lx, ly, cx, cy are exact for even sizes.
hitTestTextLocal(pt, t) ==
    LET w == measureText(t).w
        h == measureText(t).h
        cx == t.x + w \div 2
        cy == t.y - h \div 2
        dx == pt.x - cx
        dy == pt.y - cy
        cos == Cos90(-t.rotationDeg)
        sin == Sin90(-t.rotationDeg)
        lx == dx * cos - dy * sin
        ly == dx * sin + dy * cos
        rotY == -(h \div 2) - 16
        Abs(v) == IF v < 0 THEN -v ELSE v
    IN  [within |-> /\ 2 * lx >= -w /\ 2 * lx <= w
                    /\ 2 * ly >= -h /\ 2 * ly <= h,
         isOnRotate |-> lx * lx + (ly - rotY) * (ly - rotY) <= 8 * 8,
         isOnResize |-> /\ Abs(2 * lx - w) <= 2 * 10
                        /\ Abs(2 * ly - h) <= 2 * 10,
         cx |-> cx, cy |-> cy, w |-> w, h |-> h]

\* hitTestImage(pt): the images from the last to the first.
hitTestImage(pt) ==
    LET Abs(v) == IF v < 0 THEN -v ELSE v
        Within(it) == /\ pt.x >= it.x /\ pt.x <= it.x + it.w
                      /\ pt.y >= it.y /\ pt.y <= it.y + it.h
        hits == {i \in DOMAIN state.images : Within(state.images[i])}
    IN  IF hits = {}
        THEN [id |-> NoId, within |-> FALSE, isOnResize |-> FALSE]
        ELSE LET i == CHOOSE k \in hits : \A j \in hits : j <= k
                 it == state.images[i]
                 handleSize == 12
             IN  [id |-> it.id, within |-> TRUE,
                  isOnResize |-> /\ Abs(pt.x - (it.x + it.w)) <= handleSize
                                 /\ Abs(pt.y - (it.y + it.h)) <= handleSize]

\* The text the loop of onCanvasPointerDown stops at, from the last text to
\* the first: the first one the point hits in any zone; 0 when none.
TextHitIndex(pt) ==
    LET Hit(i) == LET res == hitTestTextLocal(pt, state.texts[i])
                  IN  res.isOnRotate \/ res.isOnResize \/ res.within
        hits == {i \in DOMAIN state.texts : Hit(i)}
    IN  IF hits = {} THEN 0 ELSE CHOOSE k \in hits : \A j \in hits : j <= k

\* The zones tested body first.
TextHitKindBodyFirst(res) ==
    IF res.within THEN "drag"
    ELSE IF res.isOnRotate THEN "rotate"
    ELSE "resize"

\* The zone of the text the loop stopped at: rotate, then resize, then body.
TextHitKind(res) ==
    IF res.isOnRotate THEN "rotate"
    ELSE IF res.isOnResize THEN "resize"
    ELSE "drag"

\* array.find(x => x.id === id), for an id that is present.
Find(s, id) == s[CHOOSE i \in DOMAIN s : s[i].id = id]

\* array.map(x => x.id === id ? { ...x, ...partial } : x)
MapId(s, id, partial) ==
    [i \in DOMAIN s |-> IF s[i].id = id THEN Merge(s[i], partial) ELSE s[i]]

\* ------------------------------------------------------ pointer handlers
\* setState(prev => ...): the updater's result is a new object.
SetStateTexts(texts) == state' = [Fresh(state) EXCEPT !.texts = texts]
SetStateImages(images) == state' = [Fresh(state) EXCEPT !.images = images]
SetStateStrokes(strokes) == state' = [Fresh(state) EXCEPT !.strokes = strokes]

\* onCanvasPointerDown, activeTool === "image"
PointerDownImage(pt) ==
    LET hit == hitTestImage(pt)
    IN  /\ selectedImageId' = hit.id
        /\ IF hit.id # NoId
           THEN LET item == Find(state.images, hit.id)
                IN  IF hit.isOnResize
                    THEN transformRef' =
                            [NoTransform EXCEPT !.mode = "resize",
                                !.target = "image", !.id = item.id,
                                !.initialW = item.w, !.initialH = item.h]
                    ELSE transformRef' =
                            [NoTransform EXCEPT !.mode = "drag",
                                !.target = "image", !.id = item.id,
                                !.offsetX = pt.x - item.x,
                                !.offsetY = pt.y - item.y]
           ELSE transformRef' = NoTransform
        /\ UNCHANGED <<state, selectedTextId, editingTextId, drawingRef>>

\* onCanvasPointerDown, activeTool === "text"
PointerDownText(pt) ==
    LET i == TextHitIndex(pt)
    IN  IF i = 0
        THEN /\ selectedTextId' = NoId
             /\ editingTextId' = NoId
             /\ transformRef' = NoTransform
             /\ UNCHANGED <<state, selectedImageId, drawingRef>>
        ELSE LET t == state.texts[i]
                 hitData == hitTestTextLocal(pt, t)
                 hitKind == TextHitKind(hitData)
             IN  /\ selectedTextId' = t.id
                 /\ editingTextId' = t.id
                 /\ transformRef' =
                      CASE hitKind = "drag" ->
                             [NoTransform EXCEPT !.mode = "drag", !.id = t.id,
                                 !.offsetX = pt.x - t.x,
                                 !.offsetY = pt.y - (t.y - hitData.h)]
                        [] hitKind = "rotate" ->
                             [NoTransform EXCEPT !.mode = "rotate", !.id = t.id,
                                 !.centerX = hitData.cx, !.centerY = hitData.cy,
                                 !.startAngleDeg =
                                     Atan2Deg(pt.y - hitData.cy, pt.x - hitData.cx),
                                 !.initialRotationDeg = t.rotationDeg]
                        [] hitKind = "resize" ->
                             [NoTransform EXCEPT !.mode = "resize", !.id = t.id,
                                 !.initialW = hitData.w, !.initialH = hitData.h,
                                 !.initialSize = t.size]
                 /\ UNCHANGED <<state, selectedImageId, drawingRef>>

\* onCanvasPointerDown, activeTool === "draw"
PointerDownDraw(pt) ==
    LET id == uid(UsedStrokeIds)
        stroke == [id |-> id, points |-> <<pt>>, color |-> "#111111",
                   size |-> BrushSize]
    IN  /\ SetStateStrokes(Append(state.strokes, stroke))
        /\ drawingRef' = id
        /\ UNCHANGED <<selectedTextId, selectedImageId, editingTextId,
                       transformRef>>

\* onCanvasPointerDown, any other tool
PointerDownOther ==
    /\ selectedTextId' = NoId
    /\ selectedImageId' = NoId
    /\ editingTextId' = NoId
    /\ transformRef' = NoTransform
    /\ UNCHANGED <<state, drawingRef>>

\* onCanvasPointerDown(e)
PointerDown(client) ==
    /\ ~crashed
    /\ RoomToPush
    /\ activeTool = "draw" => Len(state.strokes) < MaxStrokes
    /\ lastOp' = "pointerDown"
    /\ LET pt == getContentPointFromClient(client)
       IN  CASE activeTool = "image" -> PointerDownImage(pt)
             [] activeTool = "text" -> PointerDownText(pt)
             [] activeTool = "draw" -> PointerDownDraw(pt)
             [] OTHER -> PointerDownOther
    /\ loadCalls' = 0
    /\ UNCHANGED <<image, activeTool, imageMapRef>>
    /\ UNCHANGED <<historyVars, asyncVars>>
    /\ Rerender(FALSE)

\* The scale of an image resize, max(0.1, min(10, min(dx/startW, dy/startH))),
\* as a fraction <<n, d>>.
ImageResizeScale(dx, dy, startW, startH) ==
    LET r == IF dx * startH <= dy * startW
             THEN <<dx, startW>> ELSE <<dy, startH>>
    IN  IF r[1] > 10 * r[2] THEN <<10, 1>>
        ELSE IF 10 * r[1] < r[2] THEN <<1, 10>>
        ELSE r

\* onCanvasPointerMove, activeTool === "image", a session on an image
PointerMoveImage(pt) ==
    LET tf == transformRef
    IN  IF tf.id \notin IdsOf(state.images)
        THEN UNCHANGED state
        ELSE LET it == Find(state.images, tf.id)
             IN  IF tf.mode = "drag"
                 THEN LET newX == Max2(0, Min2(contentW - it.w, pt.x - tf.offsetX))
                          newY == Max2(0, Min2(contentH - it.h, pt.y - tf.offsetY))
                          Move == [x |-> newX, y |-> newY]
                      IN  SetStateImages(MapId(state.images, tf.id, Move))
                 ELSE LET startW == tf.initialW
                          startH == tf.initialH
                          dx == Max2(16, pt.x - it.x)
                          dy == Max2(16, pt.y - it.y)
                          scale == ImageResizeScale(dx, dy, startW, startH)
                          newW == Max2(16, RoundDiv(startW * scale[1], scale[2]))
                          newH == Max2(16, RoundDiv(startH * scale[1], scale[2]))
                          clampedW == Min2(newW, contentW - it.x)
                          clampedH == Min2(newH, contentH - it.y)
                          Size == [w |-> clampedW, h |-> clampedH]
                      IN  SetStateImages(MapId(state.images, tf.id, Size))

\* The scale of a text resize in tenths,
\* max(0.2, min(10, hypot(dx, dy) / hypot(w, h))), for a pointer on the line
\* from the anchor through (w, h), where the quotient is dx / w.
TextResizeScale10(dx, dy, w, h) ==
    Max2(2, Min2(100, (10 * dx) \div w))

\* onCanvasPointerMove, activeTool === "text", a session in progress
PointerMoveText(pt) ==
    LET tf == transformRef
    IN  IF tf.id \notin IdsOf(state.texts)
        THEN UNCHANGED state
        ELSE LET t == Find(state.texts, tf.id)
             IN  CASE tf.mode = "drag" ->
                        LET h == t.size
                            newX == Max2(0, Min2(contentW, pt.x - tf.offsetX))
                            newY == Max2(h, Min2(contentH, pt.y - tf.offsetY + h))
                            Move == [x |-> newX, y |-> newY]
                        IN  SetStateTexts(MapId(state.texts, tf.id, Move))
                   [] tf.mode = "rotate" ->
                        LET currentAngleDeg ==
                                Atan2Deg(pt.y - tf.centerY, pt.x - tf.centerX)
                            delta == currentAngleDeg - tf.startAngleDeg
                            newRot == JsRem(tf.initialRotationDeg + delta, 360)
                            Rot == [rotationDeg |-> newRot]
                        IN  SetStateTexts(MapId(state.texts, tf.id, Rot))
                   [] tf.mode = "resize" ->
                        LET h == measureText(t).h
                            scale10 == TextResizeScale10(pt.x - t.x, pt.y - t.y,
                                                         tf.initialW, h)
                            newSize == RoundDiv(tf.initialSize * scale10, 10)
                            Size == [size |-> Max2(8, Min2(256, newSize))]
                        IN  SetStateTexts(MapId(state.texts, tf.id, Size))

\* onCanvasPointerMove, activeTool === "draw", a stroke in progress
PointerMoveDraw(pt) ==
    LET Longer(st) == [st EXCEPT !.points = Append(st.points, pt)]
    IN  SetStateStrokes([i \in DOMAIN state.strokes |->
                            IF state.strokes[i].id = drawingRef
                            THEN Longer(state.strokes[i])
                            ELSE state.strokes[i]])

\* The stroke being drawn still has room in the model.
RoomToDraw ==
    \A i \in DOMAIN state.strokes :
        state.strokes[i].id = drawingRef
            => Len(state.strokes[i].points) < MaxPoints

\* onCanvasPointerMove(e)
PointerMove(client) ==
    /\ ~crashed
    /\ activeTool = "draw" /\ drawingRef # NoId => RoomToDraw
    /\ lastOp' = "pointerMove"
    /\ LET pt == getContentPointFromClient(client)
           tf == transformRef
       IN  IF activeTool = "image"
           THEN IF tf = NoTransform \/ tf.target # "image"
                   \/ tf.mode \notin {"drag", "resize"}
                THEN UNCHANGED state
                ELSE PointerMoveImage(pt)
           ELSE IF activeTool = "text"
           THEN IF tf = NoTransform THEN UNCHANGED state
                ELSE PointerMoveText(pt)
           ELSE IF activeTool = "draw"
           THEN IF drawingRef = NoId THEN UNCHANGED state
                ELSE PointerMoveDraw(pt)
           ELSE UNCHANGED state
    /\ loadCalls' = 0
    /\ UNCHANGED <<image, activeTool, imageMapRef>>
    /\ UNCHANGED <<selectionVars, historyVars, asyncVars, sessionVars>>
    /\ Rerender(FALSE)

\* A release that ends the session and commits nothing.
PointerUpNoCommit ==
    /\ ~crashed
    /\ lastOp' = "pointerUp"
    /\ transformRef' = NoTransform
    /\ drawingRef' = NoId
    /\ loadCalls' = 0
    /\ UNCHANGED <<image, state, activeTool, imageMapRef>>
    /\ UNCHANGED <<selectionVars, historyVars, asyncVars>>
    /\ Rerender(FALSE)

\* onCanvasPointerUp(e)
PointerUp ==
    /\ ~crashed
    /\ activeTool \in {"image", "text", "draw"}
          /\ (transformRef # NoTransform \/ drawingRef # NoId) => RoomToPush
    /\ lastOp' = "pointerUp"
    /\ IF /\ activeTool \in {"image", "text", "draw"}
          /\ (transformRef # NoTransform \/ drawingRef # NoId)
       THEN /\ transformRef' = NoTransform
            /\ drawingRef' = NoId
            /\ PushHistory(stateRef)
       ELSE UNCHANGED <<transformRef, drawingRef, historyRef,
                        historyIndexRef, state>>
    /\ loadCalls' = 0
    /\ UNCHANGED <<image, activeTool, imageMapRef>>
    /\ UNCHANGED <<selectionVars, asyncVars>>
    /\ Rerender(FALSE)

\* pointercancel and lostpointercapture: the canvas binds onPointerDown,
\* onPointerMove, onPointerUp and onWheel only, so no handler runs.
PointerCancel ==
    /\ ~crashed
    /\ lastOp' = "pointerCancel"
    /\ loadCalls' = 0
    /\ UNCHANGED <<image, state, activeTool, imageMapRef>>
    /\ UNCHANGED <<selectionVars, historyVars, asyncVars, sessionVars>>
    /\ Rerender(FALSE)

\* Where the pointer is pressed: on each zone of each layer the active tool
\* hit-tests, and on a corner of the frame, where it hits nothing.
TextPressPoints(t) ==
    LET m == measureText(t)
        c == Pt(t.x + m.w \div 2, t.y - m.h \div 2)
    IN  {Turn(c, Pt(0, -(m.h \div 2) - 16), t.rotationDeg),
         Turn(c, Pt(m.w \div 2, m.h \div 2), t.rotationDeg),
         Turn(c, Pt(-(m.w \div 2), -(m.h \div 2)), t.rotationDeg)}
ImagePressPoints(it) == {Pt(it.x, it.y), Pt(it.x + it.w, it.y + it.h)}
FramePoints == {Pt(0, 0), Pt(contentW, contentH)}
\* A press that starts a rotate session is level with or plumb to the centre
\* of its text, where Math.atan2 is exact.
ExactAngle(pt) ==
    LET i == TextHitIndex(pt)
    IN  i # 0 =>
            LET res == hitTestTextLocal(pt, state.texts[i])
            IN  res.isOnRotate => pt.x = res.cx \/ pt.y = res.cy
PressPoints ==
    LET layerPoints ==
            CASE activeTool = "text" ->
                    UNION {TextPressPoints(state.texts[i]) :
                              i \in DOMAIN state.texts}
              [] activeTool = "image" ->
                    UNION {ImagePressPoints(state.images[i]) :
                              i \in DOMAIN state.images}
              [] OTHER -> {}
    IN  {ToClient(p) :
            p \in {q \in layerPoints \cup {Pt(0, 0)} : ExactAngle(q)}}

\* Where the pointer moves to during a session: a corner of the frame; in a
\* rotate session a point level with the centre; in a text resize session
\* a point on the line from the anchor through (initialW, h), twenty times
\* as far.
MovePoints ==
    LET tf == transformRef
    IN  {ToClient(p) : p \in
            IF tf.mode = "rotate"
            THEN {Pt(tf.centerX + 40, tf.centerY)}
            ELSE IF tf.mode = "resize" /\ tf.target # "image"
                    /\ tf.id \in IdsOf(state.texts)
            THEN LET t == Find(state.texts, tf.id)
                 IN  {Pt(t.x + 20 * tf.initialW, t.y + 20 * t.size)}
            ELSE FramePoints}

\* ---------------------------------------------------------- image layers
\* The files a user may pick as overlays: the natural size of the decoded
\* image, or w = 0 for a file whose decode fails.
BrokenFile == [w |-> 0, h |-> 0]
OverlayFiles == {[w |-> 100, h |-> 100], BrokenFile}

\* onAddImages: the change handler starts one decode per file and returns.
\* The completion runs later with the state and contentSize of this render.
AddImagesRequest(files) ==
    /\ ~crashed
    /\ pendingAdds = <<>>
    /\ lastOp' = "addImagesRequest"
    /\ pendingAdds' = <<[files |-> files, state |-> [state EXCEPT !.oid = 0],
                         maxW |-> contentW, maxH |-> contentH]>>
    /\ loadCalls' = 0
    /\ UNCHANGED <<image, state, activeTool, imageMapRef, pendingLoads,
                   lastRequested>>
    /\ UNCHANGED <<selectionVars, historyVars, sessionVars>>
    /\ Rerender(FALSE)

\* img.onload of an overlay decode: the ImageItem it resolves with.
NewImageItem(id, file, maxW, maxH) ==
    LET naturalW == file.w
        naturalH == file.h
        \* scale = min(maxW / naturalW, maxH / naturalH, 0.5) as <<n, d>>
        s1 == IF maxW * naturalH <= maxH * naturalW
              THEN <<maxW, naturalW>> ELSE <<maxH, naturalH>>
        scale == IF 2 * s1[1] <= s1[2] THEN s1 ELSE <<1, 2>>
        w0 == Max2(32, Min2(maxW, RoundDiv(naturalW * scale[1], scale[2])))
        \* aspect = naturalW / max(1, naturalH)
        h0 == RoundDiv(w0 * Max2(1, naturalH), naturalW)
        h == IF h0 > maxH THEN Max2(32, Min2(maxH, maxH)) ELSE h0
        w == IF h0 > maxH THEN RoundDiv(h * naturalW, Max2(1, naturalH)) ELSE w0
    IN  [id |-> id, src |-> "", x |-> RoundDiv(maxW - w, 2),
         y |-> RoundDiv(maxH - h, 2), w |-> w, h |-> h]

\* The decodes of a request that succeed, in file order.
Decoded(files) == LET Ok(f) == f # BrokenFile IN SelectSeq(files, Ok)

\* The new items put below the images of the snapshot.
NewItemsFirst(images, newItems) == newItems \o images

\* [...state.images, ...newItems]
WithNewItems(images, newItems) == images \o newItems

\* Promise.all(toLoad).then(...): every decode of the request has settled.
AddImagesDone ==
    /\ ~crashed
    /\ pendingAdds # <<>>
    /\ lastOp' = "addImagesDone"
    /\ LET req == pendingAdds[1]
           ok == Decoded(req.files)
           newItems == [k \in DOMAIN ok |->
                           NewImageItem(FreeId(UsedImageIds, k), ok[k], req.maxW, req.maxH)]
       IN  /\ Len(ok) > 0 => RoomToPush
           /\ Len(req.state.images) + Len(ok) <= MaxImages
           /\ imageMapRef' = [id \in ((DOMAIN imageMapRef) \cap UsedImageIds)
                                        \cup IdsOf(newItems) |->
                                IF id \in IdsOf(newItems)
                                THEN LET f == ok[CHOOSE k \in DOMAIN ok :
                                                    newItems[k].id = id]
                                     IN  [w |-> f.w, h |-> f.h]
                                ELSE imageMapRef[id]]
           /\ IF Len(ok) = 0
              THEN UNCHANGED <<state, historyRef, historyIndexRef,
                               selectedImageId>>
              ELSE /\ PushHistory([Fresh(req.state) EXCEPT
                                      !.images = WithNewItems(req.state.images, newItems)])
                   /\ selectedImageId' = newItems[Len(newItems)].id
    /\ pendingAdds' = <<>>
    /\ loadCalls' = 0
    /\ UNCHANGED <<image, activeTool, selectedTextId, editingTextId,
                   pendingLoads, lastRequested>>
    /\ UNCHANGED sessionVars
    /\ Rerender(FALSE)

\* The size scaleImage gives the image it, the factor in hundredths:
\* rounded, raised to 16 and cut to the room right of and below (x, y).
ScaledSize(it, factor100) ==
    LET newW == Max2(16, RoundDiv(it.w * factor100, 100))
        newH == Max2(16, RoundDiv(it.h * factor100, 100))
        clampedW == Min2(newW, contentW - it.x)
        clampedH == Min2(newH, contentH - it.y)
    IN  [w |-> clampedW, h |-> clampedH]

\* scaleImage(id, factor), the factor in hundredths.
ScaleImage(id, factor100) ==
    /\ ~crashed
    /\ id \in IdsOf(state.images) => RoomToPush
    /\ lastOp' = "scaleImage"
    /\ IF id \notin IdsOf(state.images)
       THEN UNCHANGED <<state, historyRef, historyIndexRef>>
       ELSE LET it == Find(state.images, id)
                Size == ScaledSize(it, factor100)
            IN  PushHistory([Fresh(state) EXCEPT
                                !.images = MapId(state.images, id, Size)])
    /\ loadCalls' = 0
    /\ UNCHANGED <<image, activeTool, imageMapRef>>
    /\ UNCHANGED <<selectionVars, asyncVars, sessionVars>>
    /\ Rerender(FALSE)

\* findIndex: the index of the image with this id, 0 when there is none
\* (the code's -1; the model's sequences start at 1).
FindIndex(s, id) ==
    IF id \in IdsOf(s) THEN CHOOSE i \in DOMAIN s : s[i].id = id ELSE 0

\* arr.splice(idx, 1): the array without its idx-th entry.
Without(s, idx) == SubSeq(s, 1, idx - 1) \o SubSeq(s, idx + 1, Len(s))

\* The array with its idx-th entry and the next one exchanged.
SwapWithNext(images, idx) ==
    [i \in DOMAIN images |->
        IF i = idx THEN images[idx + 1]
        ELSE IF i = idx + 1 THEN images[idx]
        ELSE images[i]]

\* The array bringForwardImage commits: [...without item, item].
BroughtForward(images, idx) == Append(Without(images, idx), images[idx])

\* A reordering that leaves the array as it is.
SentNowhere(images, idx) == images

\* The array sendBackwardImage commits: [item, ...without item].
SentBackward(images, idx) == <<images[idx]>> \o Without(images, idx)

\* bringForwardImage(id)
BringForwardImage(id) ==
    /\ ~crashed
    /\ lastOp' = "bringForwardImage"
    /\ LET idx == FindIndex(state.images, id)
       IN  IF idx = 0 \/ idx = Len(state.images)
           THEN UNCHANGED <<state, historyRef, historyIndexRef>>
           ELSE /\ RoomToPush
                /\ PushHistory([Fresh(state) EXCEPT
                                   !.images = BroughtForward(state.images, idx)])
    /\ loadCalls' = 0
    /\ UNCHANGED <<image, activeTool, imageMapRef>>
    /\ UNCHANGED <<selectionVars, asyncVars, sessionVars>>
    /\ Rerender(FALSE)

\* sendBackwardImage(id)
SendBackwardImage(id) ==
    /\ ~crashed
    /\ lastOp' = "sendBackwardImage"
    /\ LET idx == FindIndex(state.images, id)
       IN  IF idx <= 1
           THEN UNCHANGED <<state, historyRef, historyIndexRef>>
           ELSE /\ RoomToPush
                /\ PushHistory([Fresh(state) EXCEPT
                                   !.images = SentBackward(state.images, idx)])
    /\ loadCalls' = 0
    /\ UNCHANGED <<image, activeTool, imageMapRef>>
    /\ UNCHANGED <<selectionVars, asyncVars, sessionVars>>
    /\ Rerender(FALSE)

\* resetImageSize(id)
ResetImageSize(id) ==
    /\ ~crashed
    /\ id \in IdsOf(state.images) => RoomToPush
    /\ lastOp' = "resetImageSize"
    /\ IF id \notin IdsOf(state.images)
       THEN UNCHANGED <<state, historyRef, historyIndexRef>>
       ELSE LET it == Find(state.images, id)
                natW == IF id \in DOMAIN imageMapRef /\ imageMapRef[id].w # 0
                        THEN imageMapRef[id].w ELSE it.w
                natH == IF id \in DOMAIN imageMapRef /\ imageMapRef[id].h # 0
                        THEN imageMapRef[id].h ELSE it.h
                \* scale = min((cw - x) / natW, (ch - y) / natH, 1) as <<n, d>>
                s1 == IF (contentW - it.x) * natH <= (contentH - it.y) * natW
                      THEN <<contentW - it.x, natW>>
                      ELSE <<contentH - it.y, natH>>
                scale == IF s1[1] <= s1[2] THEN s1 ELSE <<1, 1>>
                newW == Min2(RoundDiv(natW * scale[1], scale[2]),
                             contentW - it.x)
                newH == Min2(RoundDiv(natH * scale[1], scale[2]),
                             contentH - it.y)
                Size == [w |-> newW, h |-> newH]
            IN  PushHistory([Fresh(state) EXCEPT
                                !.images = MapId(state.images, id, Size)])
    /\ loadCalls' = 0
    /\ UNCHANGED <<image, activeTool, imageMapRef>>
    /\ UNCHANGED <<selectionVars, asyncVars, sessionVars>>
    /\ Rerender(FALSE)

\* removeImage(id)
RemoveImage(id) ==
    /\ ~crashed
    /\ RoomToPush
    /\ lastOp' = "removeImage"
    /\ LET Keep(i) == i.id # id
       IN  PushHistory([Fresh(state) EXCEPT
                           !.images = SelectSeq(state.images, Keep)])
    /\ IF selectedImageId = id
       THEN selectedImageId' = NoId
       ELSE UNCHANGED selectedImageId
    /\ loadCalls' = 0
    /\ UNCHANGED <<image, activeTool, imageMapRef, selectedTextId,
                   editingTextId>>
    /\ UNCHANGED <<asyncVars, sessionVars>>
    /\ Rerender(FALSE)

\* undo()
Undo ==
    /\ ~crashed
    /\ lastOp' = "undo"
    /\ IF ~canUndo
       THEN UNCHANGED <<historyIndexRef, state>>
       ELSE /\ historyIndexRef' = historyIndexRef - 1
            /\ state' = HistAt(historyRef, historyIndexRef')
    /\ loadCalls' = 0
    /\ UNCHANGED <<image, editingTextId, selectedTextId, selectedImageId,
                   activeTool, historyRef, drawingRef, transformRef,
                   imageMapRef, pendingLoads, pendingAdds, lastRequested>>
    /\ Rerender(FALSE)

\* redo()
Redo ==
    /\ ~crashed
    /\ lastOp' = "redo"
    /\ IF ~canRedo
       THEN UNCHANGED <<historyIndexRef, state>>
       ELSE /\ historyIndexRef' = historyIndexRef + 1
            /\ state' = HistAt(historyRef, historyIndexRef')
    /\ loadCalls' = 0
    /\ UNCHANGED <<image, editingTextId, selectedTextId, selectedImageId,
                   activeTool, historyRef, drawingRef, transformRef,
                   imageMapRef, pendingLoads, pendingAdds, lastRequested>>
    /\ Rerender(FALSE)

\* ----------------------------------------------------------- inline editor
\* The inline text input is mounted while editingTextId is set.
\* onChange of the input: the live state takes the typed text; nothing is
\* committed.
EditorChange(text) ==
    /\ ~crashed
    /\ editingTextId # NoId
    /\ lastOp' = "editorChange"
    /\ SetStateTexts(MapId(state.texts, editingTextId, [text |-> text]))
    /\ loadCalls' = 0
    /\ UNCHANGED <<image, activeTool, imageMapRef>>
    /\ UNCHANGED <<selectionVars, historyVars, asyncVars, sessionVars>>
    /\ Rerender(FALSE)

\* onBlur of the input, and onKeyDown with Enter or Escape
EditorCommit ==
    /\ ~crashed
    /\ editingTextId # NoId
    /\ RoomToPush
    /\ lastOp' = "editorCommit"
    /\ editingTextId' = NoId
    /\ PushHistory(stateRef)
    /\ loadCalls' = 0
    /\ UNCHANGED <<image, selectedTextId, selectedImageId, activeTool,
                   imageMapRef>>
    /\ UNCHANGED <<asyncVars, sessionVars>>
    /\ Rerender(FALSE)

\* ---------------------------------------------------------------- inputs
TextPartials == {[text |-> "GM"]}
TypedTexts == {"GM"}
RotateDeltas == {90}
ToolInputs == {"none", "text", "draw", "image"}
ScaleFactors == {95, 105}
GoodFile == [w |-> 100, h |-> 100]
FileLists == {<<GoodFile>>, <<BrokenFile>>, <<GoodFile, GoodFile, GoodFile>>}
\* The ids a caller passes: those of the layers present, and one of no layer.
TextIds == IdsOf(state.texts) \cup {uid(UsedTextIds)}
ImageIds == IdsOf(state.images) \cup {uid(UsedImageIds)}

\* ------------------------------------------------------------ the editor
\* Every handler of the editor.
NextAll ==
    \/ Undo
    \/ Redo
    \/ \E t \in Templates : LoadTemplate(t)
    \/ \E t \in Templates : TemplateDecoded(t)
    \/ \E t \in Templates : TemplateFailed(t)
    \/ ResetClick
    \/ \E tool \in ToolInputs : SetTool(tool)
    \/ ParentRender
    \/ AddText
    \/ \E id \in TextIds, p \in TextPartials : UpdateText(id, p)
    \/ \E id \in TextIds : RemoveText(id)
    \/ ClearStrokes
    \/ \E d \in RotateDeltas : RotateBy(d)
    \/ \E c \in PressPoints : PointerDown(c)
    \/ \E c \in MovePoints : PointerMove(c)
    \/ PointerUp
    \/ PointerCancel
    \/ \E text \in TypedTexts : EditorChange(text)
    \/ EditorCommit
    \/ \E files \in FileLists : AddImagesRequest(files)
    \/ AddImagesDone
    \/ \E id \in ImageIds, f \in ScaleFactors : ScaleImage(id, f)
    \/ \E id \in ImageIds : BringForwardImage(id)
    \/ \E id \in ImageIds : SendBackwardImage(id)
    \/ \E id \in ImageIds : ResetImageSize(id)
    \/ \E id \in ImageIds : RemoveImage(id)

SpecAll == Init /\ [][NextAll]_vars

\* The editor is explored one group of handlers at a time: the product of
\* all of them is beyond exhaustive search.
\* History: the imperative commits, undo and redo, and the draw gesture.
Next ==
    \/ Undo
    \/ Redo
    \/ ParentRender
    \/ AddText
    \/ \E id \in IdsOf(state.texts), p \in TextPartials : UpdateText(id, p)
    \/ EditorCommit
    \/ SetTool("draw")
    \/ \E c \in PressPoints : PointerDown(c)
    \/ PointerMove(Pt(0, 0))
    \/ PointerUp

Spec == Init /\ [][Next]_vars

\* Gestures: the text tool's drag, rotate and resize, the draw tool's
\* stroke, and a change of tool at any moment.
NextGestures ==
    \/ AddText
    \/ \E tool \in {"text", "draw", "none"} : SetTool(tool)
    \/ \E c \in PressPoints : PointerDown(c)
    \/ \E c \in MovePoints : PointerMove(c)
    \/ PointerUp
    \/ PointerCancel

SpecGestures == Init /\ [][NextGestures]_vars

\* Templates: loads racing each other and the edits of the session.
NextTemplates ==
    \/ \E t \in Templates : LoadTemplate(t)
    \/ \E t \in Templates : TemplateDecoded(t)
    \/ \E t \in Templates : TemplateFailed(t)
    \/ ResetClick
    \/ AddText
    \/ \E id \in TextIds, p \in TextPartials : UpdateText(id, p)
    \/ \E id \in TextIds : RemoveText(id)
    \/ \E d \in RotateDeltas : RotateBy(d)
    \/ Undo
    \/ Redo

SpecTemplates == Init /\ [][NextTemplates]_vars

\* Layers: the text and image operations, and the selection.
NextLayers ==
    \/ \E files \in FileLists : AddImagesRequest(files)
    \/ AddImagesDone
    \/ \E id \in ImageIds, f \in ScaleFactors : ScaleImage(id, f)
    \/ \E id \in ImageIds : BringForwardImage(id)
    \/ \E id \in ImageIds : SendBackwardImage(id)
    \/ \E id \in ImageIds : ResetImageSize(id)
    \/ \E id \in ImageIds : RemoveImage(id)
    \/ AddText
    \/ \E id \in TextIds, p \in TextPartials : UpdateText(id, p)
    \/ \E id \in TextIds : RemoveText(id)
    \/ \E tool \in {"image", "text", "none"} : SetTool(tool)
    \/ \E c \in PressPoints : PointerDown(c)
    \/ PointerUp

SpecLayers == Init /\ [][NextLayers]_vars

\* ------------------------------------------------------------- keyboard
\* The window keydown handler, for the arrow keys: nothing without a
\* template; the selected image, else the selected text, is nudged by one
\* unit (ten with Shift) and the move is committed.
ArrowKeys == {"ArrowLeft", "ArrowRight", "ArrowUp", "ArrowDown"}
\* A step of one unit whatever the modifier.
KeyStepAlwaysOne(shift) == 1
\* step = e.shiftKey ? 10 : 1
KeyStep(shift) == IF shift THEN 10 ELSE 1
KeyDown(key, shift) ==
    /\ ~crashed
    /\ key \in ArrowKeys
    /\ lastOp' = "keyDown"
    /\ LET step == KeyStep(shift)
           cur == stateRef
       IN  IF image = NoImage
           THEN UNCHANGED <<state, historyRef, historyIndexRef>>
           ELSE IF selectedImageId # NoId
           THEN IF selectedImageId \notin IdsOf(cur.images)
                THEN UNCHANGED <<state, historyRef, historyIndexRef>>
                ELSE LET it == Find(cur.images, selectedImageId)
                         x == CASE key = "ArrowLeft" -> Max2(0, it.x - step)
                                [] key = "ArrowRight" ->
                                      Min2(contentW - it.w, it.x + step)
                                [] OTHER -> it.x
                         y == CASE key = "ArrowUp" -> Max2(0, it.y - step)
                                [] key = "ArrowDown" ->
                                      Min2(contentH - it.h, it.y + step)
                                [] OTHER -> it.y
                     IN  /\ RoomToPush
                         /\ PushHistory([Fresh(cur) EXCEPT !.images =
                                MapId(cur.images, it.id, [x |-> x, y |-> y])])
           ELSE IF selectedTextId # NoId
           THEN IF selectedTextId \notin IdsOf(cur.texts)
                THEN UNCHANGED <<state, historyRef, historyIndexRef>>
                ELSE LET t == Find(cur.texts, selectedTextId)
                         h == t.size
                         x == CASE key = "ArrowLeft" -> Max2(0, t.x - step)
                                [] key = "ArrowRight" ->
                                      Min2(contentW, t.x + step)
                                [] OTHER -> t.x
                         y == CASE key = "ArrowUp" -> Max2(h, t.y - step)
                                [] key = "ArrowDown" ->
                                      Min2(contentH, t.y + step)
                                [] OTHER -> t.y
                     IN  /\ RoomToPush
                         /\ PushHistory([Fresh(cur) EXCEPT !.texts =
                                MapId(cur.texts, t.id, [x |-> x, y |-> y])])
           ELSE UNCHANGED <<state, historyRef, historyIndexRef>>
    /\ loadCalls' = 0
    /\ UNCHANGED <<image, activeTool, imageMapRef>>
    /\ UNCHANGED <<selectionVars, asyncVars, sessionVars>>
    /\ Rerender(FALSE)

\* ---------------------------------------------------------------- preview
\* drawBaseCanvas, its loop over state.images: the overlays drawn, bottom
\* first.  Nothing is drawn before a template is installed, and an overlay
\* is drawn only when its element is in imageMapRef.
PreviewImages ==
    IF image = NoImage THEN <<>>
    ELSE LET Drawn(id) == id \in DOMAIN imageMapRef
         IN  SelectSeq([i \in DOMAIN state.images |-> state.images[i].id],
                       Drawn)

\* An overlay file ten times as wide as it is high.
WideFile == [w |-> 100, h |-> 10]
ImageFileLists == {<<GoodFile>>, <<WideFile>>}

\* Images: one overlay at a time added, nudged and resized on the empty
\* frame and on the 400x300 template, the template's load racing the
\* overlay's decode.
NextImages ==
    \/ image = NoImage /\ PendingCount = 0 /\ LoadTemplate("T1")
    \/ TemplateDecoded("T1")
    \/ \E files \in ImageFileLists :
          state.images = <<>> /\ AddImagesRequest(files)
    \/ AddImagesDone
    \/ \E id \in IdsOf(state.images), f \in ScaleFactors : ScaleImage(id, f)
    \/ \E id \in IdsOf(state.images) : ResetImageSize(id)
    \/ \E key \in {"ArrowRight", "ArrowDown"} : KeyDown(key, TRUE)
    \/ Undo
    \/ Redo

SpecImages == Init /\ [][NextImages]_vars

\* Stacking: overlays added and reordered on the 400x300 template.
NextStack ==
    \/ LoadTemplate("T1")
    \/ TemplateDecoded("T1")
    \/ \E files \in {<<GoodFile>>, <<GoodFile, GoodFile>>} :
          AddImagesRequest(files)
    \/ AddImagesDone
    \/ \E id \in IdsOf(state.images) : SendBackwardImage(id)
    \/ \E id \in IdsOf(state.images) : BringForwardImage(id)

SpecStack == Init /\ [][NextStack]_vars

\* ---------------------------------------------------------------- wheel
\* A wheel tick that does nothing.
CanvasWheelIgnored(down) ==
    /\ ~crashed
    /\ lastOp' = "wheel"
    /\ loadCalls' = 0
    /\ UNCHANGED <<image, state, activeTool, imageMapRef>>
    /\ UNCHANGED <<selectionVars, historyVars, asyncVars, sessionVars>>
    /\ Rerender(FALSE)

\* onCanvasWheel(e): with the image tool the selected image is scaled by
\* 0.95 (deltaY > 0) or 1.05; with the text tool the selected text takes
\* its size times the factor, rounded and clamped to 8..256, via updateText.
CanvasWheel(down) ==
    LET factor100 == IF down THEN 95 ELSE 105
    IN  IF activeTool = "image" /\ selectedImageId # NoId
        THEN ScaleImage(selectedImageId, factor100)
        ELSE IF /\ activeTool = "text" /\ selectedTextId # NoId
                /\ selectedTextId \in IdsOf(state.texts)
        THEN LET t == Find(state.texts, selectedTextId)
                 newSize == Max2(8, Min2(256, RoundDiv(t.size * factor100, 100)))
             IN  UpdateText(t.id, [size |-> newSize])
        ELSE /\ ~crashed
             /\ lastOp' = "wheel"
             /\ loadCalls' = 0
             /\ UNCHANGED <<image, state, activeTool, imageMapRef>>
             /\ UNCHANGED <<selectionVars, historyVars, asyncVars, sessionVars>>
             /\ Rerender(FALSE)

\* The sizes a caller passes to updateText: below, inside and above 8..256.
SizePartials == {[size |-> 4], [size |-> 64], [size |-> 1000]}

\* Text size: the size set through updateText, the wheel and the resize
\* handle.
NextTextSize ==
    \/ AddText
    \/ \E id \in IdsOf(state.texts), p \in SizePartials : UpdateText(id, p)
    \/ \E tool \in {"text", "none"} : SetTool(tool)
    \/ \E down \in BOOLEAN : CanvasWheel(down)
    \/ \E c \in PressPoints : PointerDown(c)
    \/ \E c \in MovePoints : PointerMove(c)
    \/ PointerUp

SpecTextSize == Init /\ [][NextTextSize]_vars

\* The angles a caller passes to rotateBy: a quarter turn either way and a
\* half turn.
SignedRotateDeltas == {-90, 90, 180}

\* Rotation: the canvas turned with a text, a stroke or an overlay on it.
NextRotate ==
    \/ AddText
    \/ SetTool("draw")
    \/ \E c \in PressPoints : PointerDown(c)
    \/ PointerUp
    \/ state.images = <<>> /\ AddImagesRequest(<<GoodFile>>)
    \/ AddImagesDone
    \/ \E d \in SignedRotateDeltas : RotateBy(d)

SpecRotate == Init /\ [][NextRotate]_vars

\* ---------------------------------------------------------------- export
\* getImageBounds(): the export raster has the size of the content frame.
getImageBounds == [x |-> 0, y |-> 0, w |-> contentW, h |-> contentH]

\* A bounds test that lets everything through.
InAnyBounds(x, y, w, h) == TRUE

\* The bounds test of getDataURL for a box with corner (x, y) and size w x h.
InExportBounds(x, y, w, h) ==
    /\ x >= 0
    /\ x + w <= getImageBounds.w
    /\ y >= 0
    /\ y + h <= getImageBounds.h

\* The points of a stroke getDataURL keeps: those inside the raster.
pointsInBounds(st) ==
    LET In(p) == /\ p.x >= 0 /\ p.x <= getImageBounds.w
                 /\ p.y >= 0 /\ p.y <= getImageBounds.h
    IN  SelectSeq(st.points, In)

\* getDataURL(type): what is drawn into the off-screen canvas, in order.
\* canvasRef is set from the first render on, so the "" of line 2637 is
\* never returned; the raster is encoded whether or not a base image is
\* installed.
getDataURL ==
    LET DrawnImage(it) ==
            /\ it.id \in DOMAIN imageMapRef
            /\ InExportBounds(it.x, it.y, it.w, it.h)
        DrawnText(t) ==
            LET m == measureText(t)
            IN  InExportBounds(t.x, t.y - m.h, m.w, m.h)
        DrawnStroke(st) == Len(pointsInBounds(st)) >= 1
        Clipped(st) == [id |-> st.id, points |-> pointsInBounds(st)]
        kept == SelectSeq(state.strokes, DrawnStroke)
    IN  [kind |-> "dataURL",
         w |-> getImageBounds.w, h |-> getImageBounds.h,
         bgColor |-> state.bgColor,
         \* offCtx is never rotated: the layers are drawn upright
         rotationDeg |-> 0,
         base |-> image,
         images |-> IdSeq(SelectSeq(state.images, DrawnImage)),
         texts |-> IdSeq(SelectSeq(state.texts, DrawnText)),
         strokes |-> [i \in DOMAIN kept |-> Clipped(kept[i])]]

\* The empty result: "" or undefined.
EmptyExport == [kind |-> "empty"]

\* drawBaseCanvas, its loops over state.texts and state.strokes: nothing is
\* drawn before a template is installed.
PreviewTexts == IF image = NoImage THEN <<>> ELSE IdSeq(state.texts)
PreviewStrokes == IF image = NoImage THEN <<>> ELSE IdSeq(state.strokes)

\* drawBaseCanvas, ctx.rotate(radians(state.rotationDeg)): the turn under
\* which the preview draws the base image and every layer.
PreviewRotation == state.rotationDeg

\* A call of getDataURL through the handle (saveMeme) or of download: the
\* editor is left as it is.
GetDataURL ==
    /\ ~crashed
    /\ lastOp' = "getDataURL"
    /\ loadCalls' = 0
    /\ UNCHANGED <<image, state, activeTool, imageMapRef>>
    /\ UNCHANGED <<selectionVars, historyVars, asyncVars, sessionVars>>
    /\ Rerender(FALSE)

\* Where a text is put through updateText: one unit left of the right edge.
PlacePartials == {[x |-> contentW - 1]}
\* A pointer position left of the canvas, delivered under pointer capture.
OutsidePoint == Pt(-10, 0)

\* Export: texts, strokes and overlays put inside and outside the frame,
\* with and without a template, and exported.
NextExport ==
    \/ image = NoImage /\ PendingCount = 0 /\ LoadTemplate("T1")
    \/ TemplateDecoded("T1")
    \/ AddText
    \/ \E id \in IdsOf(state.texts), p \in TextPartials : UpdateText(id, p)
    \/ \E id \in IdsOf(state.texts), p \in PlacePartials : UpdateText(id, p)
    \/ SetTool("draw")
    \/ \E c \in PressPoints : PointerDown(c)
    \/ \E c \in {Pt(0, 0), OutsidePoint} : drawingRef # NoId /\ PointerMove(c)
    \/ PointerUp
    \/ state.images = <<>> /\ AddImagesRequest(<<GoodFile>>)
    \/ AddImagesDone
    \/ GetDataURL

SpecExport == Init /\ [][NextExport]_vars

\* Export of a turned canvas: the template loaded once, a text, a stroke and
\* an overlay on it, the canvas turned, and the export taken.
NextExportRotated ==
    \/ image = NoImage /\ PendingCount = 0 /\ LoadTemplate("T1")
    \/ TemplateDecoded("T1")
    \/ AddText
    \/ SetTool("draw")
    \/ \E c \in PressPoints : PointerDown(c)
    \/ PointerUp
    \/ state.images = <<>> /\ AddImagesRequest(<<GoodFile>>)
    \/ AddImagesDone
    \/ \E d \in SignedRotateDeltas : RotateBy(d)
    \/ GetDataURL

SpecExportRotated == Init /\ [][NextExportRotated]_vars

\* ------------------------------------------------------- failed decodes
\* The overlay files of one request: all failing, all decoding, and mixed.
DecodeFileLists ==
    {<<BrokenFile>>, <<BrokenFile, BrokenFile>>, <<GoodFile>>,
     <<BrokenFile, GoodFile>>}

\* Decodes: templates and overlays whose decode succeeds or fails, with a
\* text on the canvas.
NextDecode ==
    \/ \E t \in Templates : LoadTemplate(t)
    \/ \E t \in Templates : TemplateDecoded(t)
    \/ \E t \in Templates : TemplateFailed(t)
    \/ AddText
    \/ \E files \in DecodeFileLists : AddImagesRequest(files)
    \/ AddImagesDone

SpecDecode == Init /\ [][NextDecode]_vars

\* Snapshots: the live state changed by typing in the inline editor and by
\* a stroke being drawn, next to commits, undo, redo and the reset of a
\* template load.
NextSnapshots ==
    \/ image = NoImage /\ PendingCount = 0 /\ LoadTemplate("T1")
    \/ TemplateDecoded("T1")
    \/ AddText
    \/ \E text \in TypedTexts : EditorChange(text)
    \/ EditorCommit
    \/ Undo
    \/ Redo
    \/ SetTool("draw")
    \/ \E c \in PressPoints : PointerDown(c)
    \/ PointerMove(Pt(0, 0))
    \/ PointerUp

SpecSnapshots == Init /\ [][NextSnapshots]_vars

\* ------------------------------------------------------ overlay sizes
\* Overlay files smaller than the 32-unit floor and taller than any frame.
SmallFile == [w |-> 10, h |-> 10]
TallFile == [w |-> 10, h |-> 2000]
SizeFiles == {SmallFile, GoodFile, WideFile, TallFile}

\* Overlay sizes: one overlay of each natural size added, and removed, on
\* the empty frame and on each template.
NextAddSizes ==
    \/ \E t \in Templates : PendingCount = 0 /\ LoadTemplate(t)
    \/ \E t \in Templates : TemplateDecoded(t)
    \/ \E f \in SizeFiles : state.images = <<>> /\ AddImagesRequest(<<f>>)
    \/ AddImagesDone
    \/ \E id \in IdsOf(state.images) : RemoveImage(id)

SpecAddSizes == Init /\ [][NextAddSizes]_vars

\* Keys: the arrow keys pressed before and after the template is loaded,
\* on a selected text or overlay, at rest and in the middle of a gesture
\* that has taken the layer to an edge of the frame.
NextKeys ==
    \/ image = NoImage /\ PendingCount = 0 /\ LoadTemplate("T1")
    \/ TemplateDecoded("T1")
    \/ AddText
    \/ state.images = <<>> /\ AddImagesRequest(<<GoodFile>>)
    \/ AddImagesDone
    \/ \E tool \in {"text", "image"} : SetTool(tool)
    \/ \E c \in PressPoints : transformRef = NoTransform /\ PointerDown(c)
    \/ \E c \in MovePoints : PointerMove(c)
    \/ PointerUp
    \/ \E key \in ArrowKeys, shift \in BOOLEAN : KeyDown(key, shift)

SpecKeys == Init /\ [][NextKeys]_vars

\* Wheel: ticks over a selected text or overlay with its tool active, at
\* rest and in the middle of a gesture that has taken the layer to a size
\* or frame bound, and with nothing selected or another tool active.
NextWheel ==
    \/ AddText
    \/ state.images = <<>> /\ AddImagesRequest(<<GoodFile>>)
    \/ AddImagesDone
    \/ \E tool \in {"text", "image", "none"} : SetTool(tool)
    \/ \E c \in PressPoints : transformRef = NoTransform /\ PointerDown(c)
    \/ \E c \in MovePoints : PointerMove(c)
    \/ PointerUp
    \/ \E down \in BOOLEAN : CanvasWheel(down)

SpecWheel == Init /\ [][NextWheel]_vars

\* ----------------------------------------------------------- delete keys
\* The window keydown handler, for Delete and Backspace: nothing without a
\* template; the selected image found in stateRef is removed; else the
\* selected text found in stateRef is removed, on Backspace only when no
\* text is being edited.
DeleteKeys == {"Delete", "Backspace"}
KeyDownDelete(key) ==
    /\ key \in DeleteKeys
    /\ IF image # NoImage /\ selectedImageId # NoId
          /\ selectedImageId \in IdsOf(stateRef.images)
       THEN RemoveImage(selectedImageId)
       ELSE IF /\ image # NoImage /\ selectedImageId = NoId
               /\ selectedTextId # NoId
               /\ selectedTextId \in IdsOf(stateRef.texts)
               /\ (key = "Delete" \/ editingTextId = NoId)
       THEN RemoveText(selectedTextId)
       ELSE /\ ~crashed
            /\ lastOp' = "keyDown"
            /\ loadCalls' = 0
            /\ UNCHANGED <<image, state, activeTool, imageMapRef>>
            /\ UNCHANGED <<selectionVars, historyVars, asyncVars, sessionVars>>
            /\ Rerender(FALSE)

\* Delete keys: pressed with a text being edited, with a text or an overlay
\* selected, and with nothing selected, before and after the template load.
NextDelete ==
    \/ image = NoImage /\ PendingCount = 0 /\ LoadTemplate("T1")
    \/ TemplateDecoded("T1")
    \/ AddText
    \/ \E text \in TypedTexts : EditorChange(text)
    \/ EditorCommit
    \/ state.images = <<>> /\ AddImagesRequest(<<GoodFile>>)
    \/ AddImagesDone
    \/ \E key \in DeleteKeys : KeyDownDelete(key)
    \/ Undo
    \/ Redo

SpecDelete == Init /\ [][NextDelete]_vars

\* ------------------------------------------------------ the padding editor
\* The editor of lines 1-1703 sizes its frame from the natural size of the
\* base image and a padding box.  Its handlers close over the state of the
\* last render, and its effect copies state to stateRef after every render,
\* so a handler reads the same snapshot through either.

\* No cell of the fixed-frame editor changes.
EditorIdle ==
    UNCHANGED <<image, state, editingTextId, selectedTextId, selectedImageId,
                activeTool, historyRef, historyIndexRef, stateRef, drawingRef,
                transformRef, imageMapRef, canUndo, canRedo, crashed,
                pendingLoads, pendingAdds, lastRequested, loadCalls>>

\* contentSize
contentSize(ed) ==
    IF ed.imageNatural = NoNatural
    THEN [w |-> 0, h |-> 0]
    ELSE [w |-> ed.imageNatural.w + ed.state.padding.left
                    + ed.state.padding.right,
          h |-> ed.imageNatural.h + ed.state.padding.top
                    + ed.state.padding.bottom]

\* pushHistory(next) of the padding editor.
paddingPushHistory(ed, next) ==
    LET kept == SubSeq(ed.historyRef, 1, ed.historyIndexRef + 1)
    IN  [ed EXCEPT !.historyRef = Append(kept, next),
                   !.historyIndexRef = Len(kept),
                   !.state = next]

\* updatePadding without the clamp.
updatePaddingUnclamped(ed, side, value10) ==
    paddingPushHistory(ed,
        [ed.state EXCEPT !.padding[side] = RoundDiv(value10, 10)])

\* updatePadding(side, value); the value comes in tenths.
updatePadding(ed, side, value10) ==
    LET v == Max2(0, Min2(2000, RoundDiv(value10, 10)))
    IN  paddingPushHistory(ed, [ed.state EXCEPT !.padding[side] = v])

PaddingRoom == paddingEditor.historyIndexRef + 1 < MaxHist

\* onFileChange: img.onload of a base image of the natural size of t.
PaddingFileLoaded(t) ==
    /\ paddingEditor' =
           [imageNatural |-> [w |-> TemplateW(t), h |-> TemplateH(t)],
            state |-> paddingDefaultState,
            historyRef |-> <<paddingDefaultState>>, historyIndexRef |-> 0]
    /\ lastOp' = "paddingFileLoaded"
    /\ EditorIdle
    /\ UNCHANGED <<users, requests>>

\* addText of the padding editor.
PaddingAddText ==
    /\ paddingEditor.imageNatural # NoNatural
    /\ PaddingRoom
    /\ Len(paddingEditor.state.texts) < MaxTexts
    /\ LET nat == paddingEditor.imageNatural
           newText == [id |-> uid(IdsOf(paddingEditor.state.texts)),
                       text |-> "Your text",
                       x |-> RoundDiv(nat.w - 80, 2), y |-> RoundDiv(nat.h, 2),
                       size |-> 32, rotationDeg |-> 0]
       IN  paddingEditor' = paddingPushHistory(paddingEditor,
               [paddingEditor.state EXCEPT
                    !.texts = Append(paddingEditor.state.texts, newText)])
    /\ lastOp' = "paddingAddText"
    /\ EditorIdle
    /\ UNCHANGED <<users, requests>>

\* The padding inputs: onChange={(e) => updatePadding(side, Number(value))}
PaddingInput(side, value10) ==
    /\ PaddingRoom
    /\ paddingEditor' = updatePadding(paddingEditor, side, value10)
    /\ lastOp' = "updatePadding"
    /\ EditorIdle
    /\ UNCHANGED <<users, requests>>

\* addSpace: updatePadding("bottom", stateRef.current.padding.bottom + 50)
AddSpace ==
    /\ PaddingRoom
    /\ paddingEditor' = updatePadding(paddingEditor, "bottom",
           10 * (paddingEditor.state.padding.bottom + 50))
    /\ lastOp' = "addSpace"
    /\ EditorIdle
    /\ UNCHANGED <<users, requests>>

\* Padding: base image loads, a text, the four padding inputs and addSpace.
NextPadding ==
    \/ \E t \in Templates : PaddingFileLoaded(t)
    \/ PaddingAddText
    \/ \E side \in {"top", "right", "bottom", "left"},
          value10 \in {-50, 0, 125, 19900, 25000} :
           PaddingInput(side, value10)
    \/ AddSpace

SpecPadding == Init /\ [][NextPadding]_vars

\* ------------------------------------------------------ POST /api/users
\* The route handler of app/api/users/route.ts.  Each await is a point
\* where other requests run; findOne and insertOne are each atomic in the
\* database.  The collection has no unique index: the handler reaches it
\* through db.collection("users") and nothing in the repository creates one.

\* String.prototype.toLowerCase on the wallet addresses sent.
toLowerCase(a) ==
    CASE a = "0xAB" -> "0xab"
      [] a = "0xCD" -> "0xcd"
      [] OTHER -> a

\* const { walletAddress } = await request.json(); the 400 of a missing
\* address; lowerAddress.
PostReceive(r, walletAddress) ==
    /\ requests[r].pc \in {"idle", "done"}
    /\ Len(users) + Cardinality({q \in DOMAIN requests :
                                    requests[q].pc \in {"find", "insert"}})
           < MaxUsers
    /\ requests' = [requests EXCEPT ![r] =
           IF walletAddress = ""
           THEN [NoRequest EXCEPT !.pc = "done", !.status = 400]
           ELSE [NoRequest EXCEPT !.pc = "find",
                    !.walletAddress = walletAddress,
                    !.lowerAddress = toLowerCase(walletAddress)]]
    /\ lastOp' = "postReceive"
    /\ UNCHANGED <<users, paddingEditor>>
    /\ EditorIdle

\* await usersCollection.findOne({ walletAddress: lowerAddress }), and the
\* 200 with the document found.
PostFind(r) ==
    /\ requests[r].pc = "find"
    /\ LET match == {i \in DOMAIN users :
                        users[i].walletAddress = requests[r].lowerAddress}
       IN  requests' = [requests EXCEPT ![r] =
               IF match = {}
               THEN [@ EXCEPT !.pc = "insert"]
               ELSE [@ EXCEPT !.pc = "done", !.status = 200,
                        !.user = users[CHOOSE i \in match :
                                          \A j \in match : i <= j]]]
    /\ lastOp' = "postFind"
    /\ UNCHANGED <<users, paddingEditor>>
    /\ EditorIdle

\* await usersCollection.insertOne(user); user._id = result.insertedId; the
\* 201 with the document inserted.
PostInsert(r) ==
    /\ requests[r].pc = "insert"
    /\ LET user == [_id |-> Len(users) + 1,
                    walletAddress |-> requests[r].lowerAddress]
       IN  /\ users' = Append(users, user)
           /\ requests' = [requests EXCEPT ![r] =
                  [@ EXCEPT !.pc = "done", !.status = 201, !.user = user]]
    /\ lastOp' = "postInsert"
    /\ UNCHANGED paddingEditor
    /\ EditorIdle

\* Users: requests for two wallets, one of them in two letter cases, and a
\* request without an address.
NextUsers ==
    \/ \E r \in 1..MaxRequests, walletAddress \in {"", "0xAB", "0xab", "0xCD"} :
           PostReceive(r, walletAddress)
    \/ \E r \in 1..MaxRequests : PostFind(r)
    \/ \E r \in 1..MaxRequests : PostInsert(r)

SpecUsers == Init /\ [][NextUsers]_vars

\* ================================================================ properties
\* A session is open: a transform or a stroke is in progress.
SessionOpen == transformRef # NoTransform \/ drawingRef # NoId

\* The step runs a handler that calls pushHistory.
CommitStep ==
    \/ lastOp' \in {"addText", "updateText", "editorCommit"}
    \/ /\ lastOp' = "pointerUp"
       /\ SessionOpen
       /\ activeTool \in {"image", "text", "draw"}

\* C1: a commit from any history H with cursor c leaves the history
\* H[0..c] followed by the committed snapshot (every entry beyond the cursor
\* is discarded), the cursor on the new last entry, and the committed
\* snapshot as the current state.
CommitContract ==
    [][CommitStep =>
        /\ historyRef' =
              Append(SubSeq(historyRef, 1, historyIndexRef + 1), state')
        /\ historyIndexRef' = Len(historyRef') - 1
        /\ HistAt(historyRef', historyIndexRef') = state']_vars

\* A text is added on top of the default snapshot while the text added
\* before it is gone from the history: the commit discarded a redo tail.
CommitDiscardedTail ==
    /\ lastOp = "addText"
    /\ Len(historyRef) = 2
    /\ historyIndexRef = 1
    /\ IdsOf(state.texts) = {2}
    /\ historyRef[1] = defaultState

\* C2: undo and redo move the cursor by exactly one when it is in range and
\* make the current state the snapshot at the new cursor; undo at cursor 0
\* and redo at the last entry leave state, history and cursor unchanged and
\* raise no error.
UndoRedoContract ==
    [][/\ lastOp' = "undo" =>
            IF historyIndexRef > 0
            THEN /\ historyIndexRef' = historyIndexRef - 1
                 /\ state' = HistAt(historyRef, historyIndexRef - 1)
                 /\ historyRef' = historyRef
            ELSE /\ UNCHANGED <<state, historyRef, historyIndexRef>>
                 /\ ~crashed'
       /\ lastOp' = "redo" =>
            IF historyIndexRef < Len(historyRef) - 1
            THEN /\ historyIndexRef' = historyIndexRef + 1
                 /\ state' = HistAt(historyRef, historyIndexRef + 1)
                 /\ historyRef' = historyRef
            ELSE /\ UNCHANGED <<state, historyRef, historyIndexRef>>
                 /\ ~crashed']_vars

\* The last handler committed: the cursor is on the last entry, which is the
\* current state.
JustCommitted ==
    /\ lastOp \in {"addText", "updateText", "editorCommit", "pointerUp"}
    /\ historyIndexRef >= 1
    /\ historyIndexRef = Len(historyRef) - 1
    /\ HistAt(historyRef, historyIndexRef) = state

\* C3: after commit(s1); commit(s2), undo makes the current state s1 and a
\* following redo makes it s2; after a commit that follows an undo, redo is
\* a no-op.
HistoryMonotonicity ==
    [][/\ (JustCommitted /\ historyIndexRef >= 2 /\ lastOp' = "undo") =>
            state' = HistAt(historyRef, historyIndexRef - 1)
       /\ (lastOp = "undo" /\ historyIndexRef < Len(historyRef) - 1
              /\ lastOp' = "redo") =>
            state' = HistAt(historyRef, historyIndexRef + 1)
       /\ (JustCommitted /\ lastOp' = "redo") =>
            /\ UNCHANGED <<state, historyRef, historyIndexRef>>
            /\ ~crashed']_vars

\* C4: a gesture appends exactly one history entry, pushed at pointer-up
\* and equal to the live state at release; neither the pointer-down that
\* starts the session nor any pointer-move pushes an entry.
OneGestureOneEntry ==
    [][/\ lastOp' \in {"pointerDown", "pointerMove"} =>
            UNCHANGED <<historyRef, historyIndexRef>>
       /\ (lastOp' = "pointerUp" /\ SessionOpen
              /\ activeTool \in {"image", "text", "draw"}) =>
            /\ historyRef' =
                  Append(SubSeq(historyRef, 1, historyIndexRef + 1), state)
            /\ historyIndexRef' = historyIndexRef + 1
            /\ Val(state') = Val(state)]_vars

\* A rotate gesture has been released and has left one entry: the history
\* is the default, the text as added, the text turned.
GestureCommitted ==
    /\ lastOp = "pointerUp"
    /\ ~SessionOpen
    /\ Len(historyRef) = 3
    /\ historyIndexRef = 2
    /\ historyRef[3] = state
    /\ \E i \in DOMAIN state.texts : state.texts[i].rotationDeg = 90
    /\ historyRef[2].texts # <<>>
    /\ historyRef[2].texts[1].rotationDeg = 0

\* C5: whatever the active tool, after a pointer-up or a loss of the pointer
\* capture both sessions are empty, and a pointer-move that follows with no
\* pointer-down in between changes no layer.
SessionAlwaysEnds ==
    [][/\ lastOp' \in {"pointerUp", "pointerCancel"} =>
            transformRef' = NoTransform /\ drawingRef' = NoId
       /\ (lastOp \in {"pointerUp", "pointerCancel"}
              /\ lastOp' = "pointerMove") =>
            Val(state') = Val(state)]_vars

\* C6: when a template decode completes the layers are empty, the history is
\* exactly one entry with the cursor at 0, undo and redo are both disabled,
\* the text and image selections are cleared and the load callback has been
\* invoked exactly once.
DecodeReplacesWholesale ==
    lastOp = "templateDecoded" =>
        /\ state.texts = <<>> /\ state.strokes = <<>> /\ state.images = <<>>
        /\ Val(state) = Val(defaultState)
        /\ historyRef = <<state>>
        /\ historyIndexRef = 0
        /\ ~canUndo /\ ~canRedo
        /\ selectedTextId = NoId /\ selectedImageId = NoId
        /\ editingTextId = NoId
        /\ loadCalls = 1
        /\ ~crashed

\* The decode of T1 has completed and installed it while the load of T2,
\* requested after it, is still in flight.
DecodeCompleted ==
    /\ lastOp = "templateDecoded"
    /\ image = "T1"
    /\ lastRequested = "T2"
    /\ pendingLoads["T2"] = 1

\* The template whose decode completes in this step.
DecodedHere(t) ==
    /\ lastOp' = "templateDecoded"
    /\ pendingLoads'[t] = pendingLoads[t] - 1

\* C7: a decode that completes when the template requested last is already
\* installed, and that is of another template, is discarded: it changes
\* neither the installed template nor the layers nor the history, so the
\* installed template stays the one requested last.
StaleDecodeGuarded ==
    [][\A t \in Templates :
          (DecodedHere(t) /\ t # lastRequested /\ image = lastRequested) =>
              UNCHANGED <<image, state, historyRef, historyIndexRef>>]_vars

\* C8: selectedTextId and selectedImageId are never both set.
SelectionExclusive ==
    ~(selectedTextId # NoId /\ selectedImageId # NoId)

\* The editor is left as it was: state, history, cursor and selection.
EditorUntouched ==
    UNCHANGED <<state, historyRef, historyIndexRef, selectedTextId,
                selectedImageId, editingTextId>>

\* C9: updateText, removeText, removeImage, scaleImage, bringForwardImage,
\* sendBackwardImage and resetImageSize called with an id of no layer leave
\* the state, the history, the cursor and the selection unchanged.
UnknownIdIsNoOp ==
    [][/\ \A id \in TextIds \ IdsOf(state.texts) :
            /\ (\E p \in TextPartials : UpdateText(id, p)) => EditorUntouched
            /\ RemoveText(id) => EditorUntouched
       /\ \A id \in ImageIds \ IdsOf(state.images) :
            /\ RemoveImage(id) => EditorUntouched
            /\ (\E f \in ScaleFactors : ScaleImage(id, f)) => EditorUntouched
            /\ BringForwardImage(id) => EditorUntouched
            /\ SendBackwardImage(id) => EditorUntouched
            /\ ResetImageSize(id) => EditorUntouched]_vars

\* The sequence without the entries whose id is id.
Others(s, id) == LET Keep(x) == x # id IN SelectSeq(s, Keep)

\* C10 as stated: bringForward on the topmost image and sendBackward on the
\* bottommost are no-ops; for any other image the operation exchanges the
\* image with its immediate neighbour and leaves all other images in place.
ZOrderAdjacentSwap ==
    [][\A id \in IdsOf(state.images) :
          LET idx == FindIndex(state.images, id)
              n == Len(state.images)
              ids == IdSeq(state.images)
          IN  /\ BringForwardImage(id) =>
                    IF idx = n
                    THEN UNCHANGED <<state, historyRef, historyIndexRef>>
                    ELSE IdSeq(state'.images) =
                            [i \in 1..n |-> IF i = idx THEN ids[idx + 1]
                                            ELSE IF i = idx + 1 THEN ids[idx]
                                            ELSE ids[i]]
              /\ SendBackwardImage(id) =>
                    IF idx = 1
                    THEN UNCHANGED <<state, historyRef, historyIndexRef>>
                    ELSE IdSeq(state'.images) =
                            [i \in 1..n |-> IF i = idx THEN ids[idx - 1]
                                            ELSE IF i = idx - 1 THEN ids[idx]
                                            ELSE ids[i]]]_vars

\* C10 as the code has it: bringForward on the topmost image and
\* sendBackward on the bottommost are no-ops (no state change, no history
\* entry); for any other image bringForward moves it to the top of the
\* stack and sendBackward to the bottom, the other images keep their
\* relative order, no image is altered, and one history entry is committed.
ZOrderMoveToEnd ==
    [][\A id \in IdsOf(state.images) :
          LET idx == FindIndex(state.images, id)
              n == Len(state.images)
              ids == IdSeq(state.images)
              Permuted ==
                  {state'.images[i] : i \in 1..n} =
                      {state.images[i] : i \in 1..n}
          IN  /\ BringForwardImage(id) =>
                    IF idx = n
                    THEN UNCHANGED <<state, historyRef, historyIndexRef>>
                    ELSE /\ IdSeq(state'.images) = Append(Others(ids, id), id)
                         /\ Permuted
                         /\ historyIndexRef' = historyIndexRef + 1
                         /\ HistAt(historyRef', historyIndexRef') = state'
              /\ SendBackwardImage(id) =>
                    IF idx = 1
                    THEN UNCHANGED <<state, historyRef, historyIndexRef>>
                    ELSE /\ IdSeq(state'.images) = <<id>> \o Others(ids, id)
                         /\ Permuted
                         /\ historyIndexRef' = historyIndexRef + 1
                         /\ HistAt(historyRef', historyIndexRef') = state']_vars

\* The bottom image of a stack of three has been brought forward: it is on
\* top and the two others have moved down together.
BroughtPastTwo ==
    /\ lastOp = "bringForwardImage"
    /\ historyIndexRef = 2
    /\ IdSeq(HistAt(historyRef, 1).images) = <<1, 2, 3>>
    /\ IdSeq(state.images) = <<2, 3, 1>>

\* The text of the layer id in snapshot s; "absent" when s has no such layer.
TextOf(s, id) ==
    IF id \in IdsOf(s.texts) THEN Find(s.texts, id).text ELSE "absent"

\* C11: with the 400x300 template installed addText() appends a text at
\* (200,150) with size 20 and the empty string; updateText(id, {text: "GM"})
\* makes its text "GM"; an undo() that follows yields a state in which the
\* text exists with the empty string, and the redo() after it yields the
\* state in which its text is "GM".
TextEditUndoScenario ==
    [][/\ (image = "T1" /\ AddText) =>
            LET t == state'.texts[Len(state'.texts)]
            IN  /\ Len(state'.texts) = Len(state.texts) + 1
                /\ t.x = 200 /\ t.y = 150 /\ t.size = 20 /\ t.text = ""
                /\ t.id \notin IdsOf(state.texts)
       /\ \A id \in IdsOf(state.texts) :
            /\ UpdateText(id, [text |-> "GM"]) => TextOf(state', id) = "GM"
            /\ (/\ lastOp = "updateText"
                /\ TextOf(state, id) = "GM"
                /\ TextOf(HistAt(historyRef, historyIndexRef - 1), id) = ""
                /\ lastOp' = "undo") =>
                    /\ TextOf(state', id) = ""
                    /\ state' = HistAt(historyRef, historyIndexRef - 1)
                    /\ ~crashed'
            /\ (/\ lastOp = "undo"
                /\ TextOf(state, id) = ""
                /\ TextOf(HistAt(historyRef, historyIndexRef + 1), id) = "GM"
                /\ lastOp' = "redo") =>
                    /\ TextOf(state', id) = "GM"
                    /\ state' = HistAt(historyRef, historyIndexRef + 1)
                    /\ ~crashed']_vars

\* The scenario has run to its end on the 400x300 template: the text added
\* at (200,150) reads "GM" again after the redo, and the entry before it
\* holds the same text with the empty string.
TextEditRedone ==
    /\ lastOp = "redo"
    /\ image = "T1"
    /\ historyIndexRef = 2
    /\ Len(state.texts) = 1
    /\ state.texts[1].text = "GM"
    /\ state.texts[1].x = 200 /\ state.texts[1].y = 150
    /\ state.texts[1].size = 20
    /\ TextOf(HistAt(historyRef, 1), state.texts[1].id) = ""

\* C12: with exactly two overlay images [A, B], B frontmost,
\* sendBackward(B.id) makes the images sequence [B, A], the preview draws
\* them in that order, and the new state is committed as one history entry.
SendBackwardOfTwo ==
    [][(/\ Len(state.images) = 2
        /\ SendBackwardImage(state.images[2].id)) =>
            LET a == state.images[1]
                b == state.images[2]
            IN  /\ state'.images = <<b, a>>
                /\ image # NoImage => PreviewImages' = <<b.id, a.id>>
                /\ historyRef' =
                      Append(SubSeq(historyRef, 1, historyIndexRef + 1), state')
                /\ historyIndexRef' = historyIndexRef + 1]_vars

\* On the installed template the front image of two has been sent backward:
\* the preview draws B first, then A.
SentBehindOnTemplate ==
    /\ lastOp = "sendBackwardImage"
    /\ image = "T1"
    /\ historyIndexRef = 2
    /\ IdSeq(HistAt(historyRef, 1).images) = <<1, 2>>
    /\ IdSeq(state.images) = <<2, 1>>
    /\ PreviewImages = <<2, 1>>

\* C13: every overlay image of the current state lies inside the content
\* frame in force: 0 <= x, 0 <= y, x + w <= contentWidth and
\* y + h <= contentHeight.
ImagesInsideFrame ==
    \A i \in DOMAIN state.images :
        LET it == state.images[i]
        IN  /\ 0 <= it.x
            /\ 0 <= it.y
            /\ it.x + it.w <= contentW
            /\ it.y + it.h <= contentH

\* The bounding box [x1, x2] x [y1, y2] lies inside the content frame.
BoxInsideFrame(x1, y1, x2, y2) ==
    /\ 0 <= x1 /\ x2 <= contentW
    /\ 0 <= y1 /\ y2 <= contentH

\* C14: every pointer-move of a drag session leaves the dragged layer with
\* its full bounding box inside the content frame: [x, x+w] x [y, y+h] for
\* an image, and [x, x+w] x [y-h, y] for a text of measured width w and
\* height h.
DragKeepsBoxInside ==
    [][(lastOp' = "pointerMove" /\ transformRef.mode = "drag") =>
          /\ (activeTool = "image" /\ transformRef.target = "image") =>
                \A i \in DOMAIN state'.images :
                    LET it == state'.images[i]
                    IN  it.id = transformRef.id =>
                            BoxInsideFrame(it.x, it.y, it.x + it.w, it.y + it.h)
          /\ activeTool = "text" =>
                \A i \in DOMAIN state'.texts :
                    LET t == state'.texts[i]
                        m == measureText(t)
                    IN  t.id = transformRef.id =>
                            BoxInsideFrame(t.x, t.y - m.h, t.x + m.w, t.y)]_vars

\* C15: every overlay image of the current state has w >= 16 and h >= 16.
ImageMinimumSize ==
    \A i \in DOMAIN state.images :
        state.images[i].w >= 16 /\ state.images[i].h >= 16

\* C16: every text layer of the current state has 8 <= size <= 256: a size
\* out of range supplied through updateText, the wheel or the resize handle
\* is saturated to the nearest bound.
FontSizeInRange ==
    \A i \in DOMAIN state.texts :
        state.texts[i].size >= 8 /\ state.texts[i].size <= 256

\* C17: rotateBy(delta), for a positive or negative delta, leaves
\* rotationDeg congruent to the former rotation plus delta modulo 360 (so,
\* from 0, to the sum of the deltas) and in the range 0 <= rotationDeg < 360.
RotationNormalized ==
    [][\A d \in SignedRotateDeltas :
          RotateBy(d) =>
              /\ (state'.rotationDeg - (state.rotationDeg + d)) % 360 = 0
              /\ 0 <= state'.rotationDeg
              /\ state'.rotationDeg < 360]_vars

\* C18: rotateBy(delta) changes only rotationDeg: the texts, strokes and
\* images and the background colour of the committed state are those of the
\* state before the call, and exactly one history entry, the new state, is
\* appended after the cursor.
RotateChangesOnlyRotation ==
    [][\A d \in SignedRotateDeltas :
          RotateBy(d) =>
              /\ state'.texts = state.texts
              /\ state'.strokes = state.strokes
              /\ state'.images = state.images
              /\ state'.bgColor = state.bgColor
              /\ historyRef' =
                    Append(SubSeq(historyRef, 1, historyIndexRef + 1), state')
              /\ historyIndexRef' = historyIndexRef + 1]_vars

\* The canvas has been turned with a text and a stroke on it: both are in
\* the committed state as they were, and the rotation is no longer 0.
RotatedWithLayers ==
    /\ lastOp = "rotateBy"
    /\ state.rotationDeg # 0
    /\ Len(state.texts) = 1
    /\ state.texts[1].x = 400 /\ state.texts[1].y = 300
    /\ Len(state.strokes) = 1
    /\ HistAt(historyRef, historyIndexRef) = state

\* The full extent of a layer lies inside the content frame.
TextInside(t) ==
    LET m == measureText(t)
    IN  BoxInsideFrame(t.x, t.y - m.h, t.x + m.w, t.y)
ImageInside(it) == BoxInsideFrame(it.x, it.y, it.x + it.w, it.y + it.h)
StrokeInside(st) ==
    \A k \in DOMAIN st.points :
        BoxInsideFrame(st.points[k].x, st.points[k].y,
                       st.points[k].x, st.points[k].y)

\* The strokes of which the export draws at least one point.
ExportedStrokes == {getDataURL.strokes[i].id : i \in DOMAIN getDataURL.strokes}
Ids(seq) == {seq[i] : i \in DOMAIN seq}

\* C19 as stated: when the editor is exported, every text, overlay image
\* and stroke whose full extent does not lie inside the content frame is
\* absent from the export, while the preview (once a template is installed)
\* still draws it.
ExportOmitsOutOfFrame ==
    lastOp = "getDataURL" =>
        /\ \A i \in DOMAIN state.texts :
              ~TextInside(state.texts[i]) =>
                  /\ state.texts[i].id \notin Ids(getDataURL.texts)
                  /\ image # NoImage => state.texts[i].id \in Ids(PreviewTexts)
        /\ \A i \in DOMAIN state.images :
              ~ImageInside(state.images[i]) =>
                  /\ state.images[i].id \notin Ids(getDataURL.images)
                  /\ image # NoImage => state.images[i].id \in Ids(PreviewImages)
        /\ \A i \in DOMAIN state.strokes :
              ~StrokeInside(state.strokes[i]) =>
                  /\ state.strokes[i].id \notin ExportedStrokes
                  /\ image # NoImage =>
                        state.strokes[i].id \in Ids(PreviewStrokes)

\* C19 as the code has it: the export draws a text or an overlay image
\* exactly when its box lies inside the content frame, and draws of every
\* stroke the points that lie inside the frame, omitting the stroke only
\* when none does; once a template is installed the preview draws every
\* layer; a text with x = contentWidth - 1 and a measured width above 1 is
\* absent from the export and present in the preview.
ExportClipsToFrame ==
    lastOp = "getDataURL" =>
        /\ \A i \in DOMAIN state.texts :
              LET t == state.texts[i]
              IN  /\ t.id \in Ids(getDataURL.texts) <=> TextInside(t)
                  /\ image # NoImage => t.id \in Ids(PreviewTexts)
                  /\ (t.x = contentW - 1 /\ measureText(t).w > 1) =>
                        t.id \notin Ids(getDataURL.texts)
        /\ \A i \in DOMAIN state.images :
              LET it == state.images[i]
              IN  /\ it.id \in Ids(getDataURL.images) <=> ImageInside(it)
                  /\ image # NoImage => it.id \in Ids(PreviewImages)
        /\ \A i \in DOMAIN state.strokes :
              LET st == state.strokes[i]
                  inside == {k \in DOMAIN st.points :
                                BoxInsideFrame(st.points[k].x, st.points[k].y,
                                               st.points[k].x, st.points[k].y)}
              IN  /\ st.id \in ExportedStrokes <=> inside # {}
                  /\ \A j \in DOMAIN getDataURL.strokes :
                        getDataURL.strokes[j].id = st.id =>
                            Len(getDataURL.strokes[j].points) = Cardinality(inside)
                  /\ image # NoImage => st.id \in Ids(PreviewStrokes)

\* The editor is exported on the installed template with a text one unit
\* left of the right edge: the export leaves the text out and the preview
\* draws it.
TextAtEdgeExported ==
    /\ lastOp = "getDataURL"
    /\ image = "T1"
    /\ Len(state.texts) = 1
    /\ state.texts[1].x = contentW - 1
    /\ getDataURL.texts = <<>>
    /\ PreviewTexts = <<state.texts[1].id>>

\* C20: an export invoked while no base image is installed returns the
\* empty result, never the data URL of a raster.
ExportWithoutBaseIsEmpty ==
    (lastOp = "getDataURL" /\ image = NoImage) => getDataURL = EmptyExport

\* C21: a template decode that fails leaves the base image, the content
\* frame, the editor state, the history, the cursor and the selection as
\* they were and does not invoke the load callback; an add-images request
\* whose every decode fails adds no image layer, pushes no history entry and
\* leaves the selection as it was.
DecodeFailureInstallsNothing ==
    [][/\ lastOp' = "templateFailed" =>
            /\ UNCHANGED <<image, state, historyRef, historyIndexRef>>
            /\ UNCHANGED selectionVars
            /\ contentW' = contentW /\ contentH' = contentH
            /\ loadCalls' = 0
       /\ (lastOp' = "addImagesDone" /\ Decoded(pendingAdds[1].files) = <<>>) =>
            /\ UNCHANGED <<state, historyRef, historyIndexRef>>
            /\ UNCHANGED selectionVars]_vars

\* A template decode has failed with a template installed, a text on the
\* canvas and that text selected.
TemplateFailedOverEdits ==
    /\ lastOp = "templateFailed"
    /\ image # NoImage
    /\ state.texts # <<>>
    /\ selectedTextId # NoId
    /\ Len(historyRef) > 1

\* C22: in every state with a base image installed whose layers all lie
\* fully inside the frame, the export composites the same overlays, texts
\* and strokes in the same order as the preview, under the same canvas
\* rotation.
ExportEqualsPreview ==
    (/\ image # NoImage
     /\ \A i \in DOMAIN state.images : ImageInside(state.images[i])
     /\ \A i \in DOMAIN state.texts : TextInside(state.texts[i])
     /\ \A i \in DOMAIN state.strokes : StrokeInside(state.strokes[i]))
    => /\ getDataURL.images = PreviewImages
       /\ getDataURL.texts = PreviewTexts
       /\ IdSeq(getDataURL.strokes) = PreviewStrokes
       /\ (getDataURL.rotationDeg - PreviewRotation) % 360 = 0

\* Pairs of factors, in hundredths, that are each other's inverse.
InversePairs == {<<50, 200>>, <<200, 50>>, <<80, 125>>, <<125, 80>>}

\* Scaling it by the factor meets the 16-unit minimum or the frame maximum.
ScaleClamped(it, factor100) ==
    \/ RoundDiv(it.w * factor100, 100) < 16
    \/ RoundDiv(it.h * factor100, 100) < 16
    \/ Max2(16, RoundDiv(it.w * factor100, 100)) > contentW - it.x
    \/ Max2(16, RoundDiv(it.h * factor100, 100)) > contentH - it.y

\* C23: for every overlay image and every factor f, scaling by f and then
\* by 1/f gives back the image's w and h, provided neither scaling met the
\* 16-unit minimum or the frame maximum.
ScaleRoundTrip ==
    \A i \in DOMAIN state.images : \A pair \in InversePairs :
        LET it == state.images[i]
            mid == Merge(it, ScaledSize(it, pair[1]))
            back == ScaledSize(mid, pair[2])
        IN  (~ScaleClamped(it, pair[1]) /\ ~ScaleClamped(mid, pair[2]))
                => back.w = it.w /\ back.h = it.h

SnapshotsImmutable ==
    [][\A i \in DOMAIN historyRef :
          \/ i \in DOMAIN historyRef' /\ historyRef'[i] = historyRef[i]
          \/ /\ i > historyIndexRef + 1
             /\ historyRef' =
                   Append(SubSeq(historyRef, 1, historyIndexRef + 1), state')
          \/ /\ lastOp' \in {"templateDecoded", "reset"}
             /\ historyRef' = <<defaultState>>
             /\ historyIndexRef' = 0]_vars

\* The live state differs from the entry at the cursor after a move of the
\* draw gesture over a stack that holds a redo tail reached by undo: the
\* entries are as they were pushed.
LiveEditBesideHistory ==
    /\ lastOp = "pointerMove"
    /\ drawingRef # NoId
    /\ Len(historyRef) = 3
    /\ historyIndexRef = 1
    /\ Val(state) # Val(HistAt(historyRef, historyIndexRef))

\* C26: a press that hits no layer, with any tool but the draw tool, leaves
\* no text selected, no image selected and no transform session.
EmptyClickClearsAll ==
    [][\A c \in PressPoints :
          (/\ activeTool # "draw"
           /\ PointerDown(c)
           /\ TextHitIndex(getContentPointFromClient(c)) = 0
           /\ hitTestImage(getContentPointFromClient(c)).id = NoId) =>
              /\ selectedTextId' = NoId
              /\ selectedImageId' = NoId
              /\ transformRef' = NoTransform]_vars

\* The image hit by a press on the corner of the last image of the state.
HitAtTopImage ==
    LET it == state.images[Len(state.images)]
    IN  hitTestImage(Pt(it.x, it.y)).id

InitialOverlaySize ==
    [][lastOp' = "addImagesDone" =>
          LET req == pendingAdds[1]
              Abs(v) == IF v < 0 THEN -v ELSE v
          IN  \A k \in DOMAIN state'.images :
                LET it == state'.images[k]
                IN  it.id \notin IdsOf(req.state.images) =>
                      /\ it.w <= imageMapRef'[it.id].w
                      /\ it.h <= imageMapRef'[it.id].h
                      /\ it.w <= req.maxW
                      /\ it.h <= req.maxH
                      /\ Abs(2 * it.x + it.w - req.maxW) <= 1
                      /\ Abs(2 * it.y + it.h - req.maxH) <= 1]_vars

MovedOrClamped(old, new, delta, lo, hi) ==
    \/ new = old + delta
    \/ delta > 0 /\ old + delta > hi /\ new = hi
    \/ delta < 0 /\ old + delta < lo /\ new = lo

\* C30: with a base image loaded, an arrow key moves the selected layer
\* (the image if one is selected, else the text) by 1 unit, 10 with Shift,
\* along the key's axis or to the frame bound in its way, changes no other
\* layer and no other field, and pushes exactly one history entry; with no
\* base image a key press changes neither state, history nor selection.
ArrowKeyNudge ==
    [][\A key \in ArrowKeys, shift \in BOOLEAN :
          KeyDown(key, shift) =>
            LET step == IF shift THEN 10 ELSE 1
                dx == CASE key = "ArrowLeft" -> -step
                        [] key = "ArrowRight" -> step
                        [] OTHER -> 0
                dy == CASE key = "ArrowUp" -> -step
                        [] key = "ArrowDown" -> step
                        [] OTHER -> 0
                Pushed ==
                    /\ historyRef' = Append(SubSeq(historyRef, 1,
                                                   historyIndexRef + 1), state')
                    /\ historyIndexRef' = historyIndexRef + 1
            IN  /\ UNCHANGED selectionVars
                /\ IF image = NoImage
                   THEN UNCHANGED <<state, historyRef, historyIndexRef>>
                   ELSE IF selectedImageId \in IdsOf(state.images)
                   THEN LET it == Find(state.images, selectedImageId)
                            nw == Find(state'.images, selectedImageId)
                        IN  /\ MovedOrClamped(it.x, nw.x, dx, 0, contentW - it.w)
                            /\ MovedOrClamped(it.y, nw.y, dy, 0, contentH - it.h)
                            /\ state'.images =
                                  [k \in DOMAIN state.images |->
                                      IF state.images[k].id = selectedImageId
                                      THEN [it EXCEPT !.x = nw.x, !.y = nw.y]
                                      ELSE state.images[k]]
                            /\ state'.texts = state.texts
                            /\ state'.strokes = state.strokes
                            /\ state'.rotationDeg = state.rotationDeg
                            /\ Pushed
                   ELSE IF selectedImageId = NoId
                           /\ selectedTextId \in IdsOf(state.texts)
                   THEN LET t == Find(state.texts, selectedTextId)
                            nw == Find(state'.texts, selectedTextId)
                        IN  /\ MovedOrClamped(t.x, nw.x, dx, 0, contentW)
                            /\ MovedOrClamped(t.y, nw.y, dy, t.size, contentH)
                            /\ state'.texts =
                                  [k \in DOMAIN state.texts |->
                                      IF state.texts[k].id = selectedTextId
                                      THEN [t EXCEPT !.x = nw.x, !.y = nw.y]
                                      ELSE state.texts[k]]
                            /\ state'.images = state.images
                            /\ state'.strokes = state.strokes
                            /\ state'.rotationDeg = state.rotationDeg
                            /\ Pushed
                   ELSE TRUE]_vars

\* The selected overlay, added at x = 175 on the 400x300 template, has been
\* nudged ten units to the right.
ImageNudgedByTen ==
    /\ lastOp = "keyDown"
    /\ image = "T1"
    /\ state.images # <<>>
    /\ selectedImageId = state.images[1].id
    /\ state.images[1].x = 185
    /\ HistAt(historyRef, historyIndexRef - 1).images # <<>>
    /\ HistAt(historyRef, historyIndexRef - 1).images[1].x = 175

\* C31: while a text is in the inline editor neither Delete nor Backspace
\* removes it; with a base image loaded and no text in the inline editor
\* either key removes the selected layer, clears the selection and pushes
\* one history entry.
DeleteSuppressedWhileTyping ==
    [][\A key \in DeleteKeys :
          KeyDownDelete(key) =>
            /\ editingTextId \in IdsOf(state.texts) =>
                    editingTextId \in IdsOf(state'.texts)
            /\ (/\ editingTextId = NoId /\ image # NoImage
                /\ selectedImageId = NoId
                /\ selectedTextId \in IdsOf(state.texts)) =>
                    /\ selectedTextId \notin IdsOf(state'.texts)
                    /\ selectedTextId' = NoId
                    /\ historyIndexRef' = historyIndexRef + 1
            /\ (/\ editingTextId = NoId /\ image # NoImage
                /\ selectedImageId \in IdsOf(state.images)) =>
                    /\ selectedImageId \notin IdsOf(state'.images)
                    /\ selectedImageId' = NoId
                    /\ historyIndexRef' = historyIndexRef + 1]_vars

AddSpaceContract ==
    [][AddSpace =>
        LET old == paddingEditor
            new == paddingEditor'
        IN  /\ new.state.padding.bottom
                   = Min2(2000, old.state.padding.bottom + 50)
            /\ \A side \in DOMAIN new.state.padding :
                   /\ new.state.padding[side] \in 0..2000
                   /\ side # "bottom"
                        => new.state.padding[side] = old.state.padding[side]
            /\ old.imageNatural # NoNatural
                 => contentSize(new).h - contentSize(old).h
                        = new.state.padding.bottom - old.state.padding.bottom
            /\ contentSize(new).w = contentSize(old).w
            /\ new.state.texts = old.state.texts
            /\ new.state.strokes = old.state.strokes
            /\ new.state.images = old.state.images
            /\ new.historyIndexRef = old.historyIndexRef + 1
            /\ Len(new.historyRef) = new.historyIndexRef + 1
            /\ new.historyRef[Len(new.historyRef)] = new.state
            /\ SubSeq(new.historyRef, 1, old.historyIndexRef + 1)
                   = SubSeq(old.historyRef, 1, old.historyIndexRef + 1)]_vars

\* addSpace has saturated the bottom padding of a frame with a base image.
AddSpaceSaturated ==
    /\ lastOp = "addSpace"
    /\ paddingEditor.imageNatural # NoNatural
    /\ paddingEditor.state.padding.bottom = 2000
    /\ paddingEditor.historyRef[2].padding.bottom = 1990
    /\ contentSize(paddingEditor).h = paddingEditor.imageNatural.h + 2020

\* C34: at every canvas rotation reached, mapping a screen point to content
\* space and then applying the render transform gives the point back, and
\* so does rendering a content point and mapping it back: the pointer
\* mapping is the inverse of the render transform.
PointerMappingInverse ==
    \A x \in {-3, 0, 37, 200, 401}, y \in {-3, 0, 11, 150, 300} :
        /\ ToClient(getContentPointFromClient(Pt(x, y))) = Pt(x, y)
        /\ getContentPointFromClient(ToClient(Pt(x, y))) = Pt(x, y)

\* A press has been mapped on a template turned a quarter, where the corner
\* of the screen is not the corner of the content.
PressMappedOnTurnedCanvas ==
    /\ lastOp = "pointerDown"
    /\ image = "T1"
    /\ state.rotationDeg = 90
    /\ getContentPointFromClient(Pt(0, 0)) = Pt(50, 350)

\* C35: whenever no gesture session is open and no text is in the inline
\* editor, the live state has the value of the history entry at the cursor.
LiveStateAtCursor ==
    (~SessionOpen /\ editingTextId = NoId /\ ~crashed)
        => Val(state) = Val(HistAt(historyRef, historyIndexRef))

\* C36: when an add-images request completes with at least one decoded
\* file, the committed snapshot is the editor state current at completion
\* with only the new images appended: the rotation, the colour, the texts
\* and the strokes are those of the current state, and its images are the
\* first images of the result.
AddImagesOnCurrentState ==
    [][(AddImagesDone /\ Decoded(pendingAdds[1].files) # <<>>) =>
        /\ state'.rotationDeg = state.rotationDeg
        /\ state'.bgColor = state.bgColor
        /\ state'.texts = state.texts
        /\ state'.strokes = state.strokes
        /\ Len(state'.images)
               = Len(state.images) + Len(Decoded(pendingAdds[1].files))
        /\ SubSeq(state'.images, 1, Len(state.images)) = state.images
        /\ HistAt(historyRef', historyIndexRef') = state']_vars

\* C37: whenever editingTextId is set, a text with that id is in the current
\* editor state.
InlineEditTargetExists ==
    editingTextId # NoId => editingTextId \in IdsOf(state.texts)

\* C38: while the editor is mounted, the canUndo that undo() tests says
\* whether the cursor is above 0, and the canRedo that redo() tests says
\* whether the cursor is below the last index.
FlagsAgreeWithCursor ==
    ~crashed =>
        /\ canUndo = (historyIndexRef > 0)
        /\ canRedo = (historyIndexRef < Len(historyRef) - 1)

\* C39: the users collection holds at most one document per lower-cased
\* wallet address, and the requests for one wallet that were answered with
\* a user were all answered with the same document.
OneUserPerWallet ==
    /\ \A i, j \in DOMAIN users :
           users[i].walletAddress = users[j].walletAddress => i = j
    /\ \A r, q \in DOMAIN requests :
           (/\ requests[r].status \in {200, 201}
            /\ requests[q].status \in {200, 201}
            /\ requests[r].lowerAddress = requests[q].lowerAddress)
               => requests[r].user = requests[q].user
====
